---- MODULE Spec2Model ----
(***************************************************************************)
(* A model of compgraph's streaming operations (compgraph/operations.py):  *)
(* the sorted-group iteration _safe_groupby, Reduce with its reducers, and *)
(* the sorted-merge Join with its four joiners and the shared combine      *)
(* primitive Joiner.common_join_part.                                      *)
(*                                                                         *)
(* A row (a Python dict) is a sequence of items [name, val] with pairwise  *)
(* different names: the sequence order is the dict's insertion order,      *)
(* which the combine primitive's result depends on.  A stream is a         *)
(* sequence of rows.  Column names are strings, values are integers.       *)
(***************************************************************************)
EXTENDS Integers, Sequences, FiniteSets, Bags, TLC

VARIABLES
    op,                 \* which operation object is being called
    rows,               \* the first input stream (rows)
    args0,              \* Join: the second input stream (args[0])
    keys,               \* self.keys of Reduce / Join
    reducer,            \* self.reducer of Reduce
    joiner,             \* self.joiner of Join
    join_type,          \* Combine: the join_type argument of common_join_part
    rows_left,          \* the _safe_groupby generator over rows
    rows_right,         \* Join: the _safe_groupby generator over args[0]
    cur_left,           \* Join: (keys_left, rows_left_group)
    cur_right,          \* Join: (keys_right, rows_right_group)
    calls,              \* the reducer / joiner invocations made so far
    out,                \* the rows the output stream has yielded so far
    err,                \* the exception that ended the output stream
    pc,                 \* where the operation's generator stands
    mapper,             \* self.mapper of Map
    first_call,         \* the outcome of the first of two calls that are compared
    sorter,             \* the runs and the read position of ExternalSort
    nodes,              \* the Graph objects built so far
    streams,            \* the terminal streams Graph.run has returned
    frames,             \* the generators of those streams, by stream and place
    heap                \* the row objects the suppliers hand out

\* the state of the graphs and their runs
graph_vars == <<nodes, streams, frames, heap>>

vars == <<op, rows, args0, keys, reducer, joiner, join_type, rows_left,
          rows_right, cur_left, cur_right, calls, out, err, pc, mapper,
          first_call, sorter, graph_vars>>

----------------------------------------------------------------------------
(* Bounds of the model. *)

\* key values are drawn from 1..MaxKey
MaxKey == 2
\* an input stream of Reduce has at most MaxRows rows
MaxRows == 3
\* an input stream of Join has at most MaxSide rows
MaxSide == 2

----------------------------------------------------------------------------
(* Rows: Python dicts with insertion order. *)

Item(n, v) == [name |-> n, val |-> v]

Names(row) == {row[i].name : i \in 1..Len(row)}

Has(row, n) == \E i \in 1..Len(row) : row[i].name = n

\* row[n]
Get(row, n) == row[CHOOSE i \in 1..Len(row) : row[i].name = n].val

\* row.update({n: v}): a present name keeps its place, a new one goes last
DictSet(row, n, v) ==
    IF Has(row, n)
    THEN [i \in 1..Len(row) |-> IF row[i].name = n THEN Item(n, v) ELSE row[i]]
    ELSE Append(row, Item(n, v))

\* del row[n]
DictDel(row, n) == SelectSeq(row, LAMBDA it : it.name /= n)

\* dict equality ignores the insertion order: a row's value as a mapping
AsMap(row) == {<<row[i].name, row[i].val>> : i \in 1..Len(row)}

\* the rows of a stream as mappings, in stream order
AsMaps(rs) == [i \in 1..Len(rs) |-> AsMap(rs[i])]

\* the multiset of the rows of a stream
RowBag(rs) ==
    LET S == {AsMap(rs[i]) : i \in 1..Len(rs)}
    IN  [m \in S |-> Cardinality({i \in 1..Len(rs) : AsMap(rs[i]) = m})]

----------------------------------------------------------------------------
(* Key tuples. *)

\* itemgetter(*ks)(row): the values of the key columns, in the order of ks
KeyOf(row, ks) == [i \in 1..Len(ks) |-> Get(row, ks[i])]

\* Python's a < b on two key values of the same length (lexicographic)
KeyLess(a, b) ==
    \E i \in 1..Len(a) :
        /\ \A j \in 1..(i - 1) : a[j] = b[j]
        /\ a[i] < b[i]

\* the run ends where the first key column changes: itemgetter(keys[0])
RunEnd_first_key(rs, ks, p) ==
    LET differ == {j \in (p + 1)..Len(rs) :
                      Get(rs[j], ks[1]) /= Get(rs[p], ks[1])}
    IN  IF differ = {} THEN Len(rs)
        ELSE (CHOOSE j \in differ : \A h \in differ : j <= h) - 1

\* the last index of the run of rows with the key of rs[p] that starts at p
\* (itertools.groupby compares each row's key with the key of the group)
RunEnd(rs, ks, p) ==
    LET k == KeyOf(rs[p], ks)
        differ == {j \in (p + 1)..Len(rs) : KeyOf(rs[j], ks) /= k}
    IN  IF differ = {} THEN Len(rs)
        ELSE (CHOOSE j \in differ : \A h \in differ : j <= h) - 1

----------------------------------------------------------------------------
(* _safe_groupby: a generator of (key, group) pairs.                       *)
(* st: "start" before the first next(), "loop" inside the for loop, "last" *)
(* after the single pair of the empty key tuple, "end" once finished.      *)
(* pos: the index of the first row the groupby has not put in a group.     *)
(* prev: prev_keys.                                                        *)

NewGroupby == [st |-> "start", pos |-> 1, prev |-> <<>>]

\* the first key alone is compared: prev_keys[0] > keys[0]
Unsorted_first_key(prev_keys, k) == k[1] < prev_keys[1]

\* prev_keys > keys
Unsorted(prev_keys, k) == KeyLess(k, prev_keys)

\* prev_keys is never assigned again: it stays the first group's key
NextPrev_stale(prev_keys, k) == prev_keys

\* prev_keys = keys
NextPrev(prev_keys, k) == k

Stopped(g) ==
    [kind |-> "stop", key |-> <<>>, group |-> <<>>, g |-> [g EXCEPT !.st = "end"]]

Raises(e, g) ==
    [kind |-> e, key |-> <<>>, group |-> <<>>, g |-> [g EXCEPT !.st = "end"]]

\* groups = itertools.groupby(rows, itemgetter(*keys))
\* prev_keys, group = next(groups); yield prev_keys, group
\* On an empty stream next(groups) raises StopIteration, which leaves the
\* generator as RuntimeError (PEP 479).
first_group(rs, ks, g) ==
    IF rs = <<>>
    THEN Raises("RuntimeError", g)
    ELSE LET e == RunEnd(rs, ks, 1)
         IN  [kind |-> "yield", key |-> KeyOf(rs[1], ks),
              group |-> SubSeq(rs, 1, e),
              g |-> [st |-> "loop", pos |-> e + 1, prev |-> KeyOf(rs[1], ks)]]

\* groupby hands out a group without consuming its rows
next_group_stuck(rs, ks, g) ==
    IF g.pos > Len(rs)
    THEN Stopped(g)
    ELSE [kind |-> "yield", key |-> KeyOf(rs[g.pos], ks),
          group |-> SubSeq(rs, g.pos, RunEnd(rs, ks, g.pos)),
          g |-> [st |-> "loop", pos |-> g.pos, prev |-> g.prev]]

\* for keys, group in groups: check the order, remember the key, yield
next_group(rs, ks, g) ==
    IF g.pos > Len(rs)
    THEN Stopped(g)
    ELSE LET k == KeyOf(rs[g.pos], ks)
             e == RunEnd(rs, ks, g.pos)
         IN  IF Unsorted(g.prev, k)
             THEN Raises("ValueError", g)
             ELSE [kind |-> "yield", key |-> k,
                   group |-> SubSeq(rs, g.pos, e),
                   g |-> [st |-> "loop", pos |-> e + 1,
                          prev |-> NextPrev(g.prev, k)]]

\* the empty key tuple taken through groupby like any other key tuple
single_group_by_groupby(rs, ks, g) ==
    IF rs = <<>>
    THEN Raises("RuntimeError", g)
    ELSE [kind |-> "yield", key |-> ks, group |-> rs,
          g |-> [st |-> "loop", pos |-> Len(rs) + 1, prev |-> ks]]

\* else: yield keys, rows  (the whole stream is the single group)
single_group(rs, ks, g) ==
    [kind |-> "yield", key |-> ks, group |-> rs,
     g |-> [st |-> "last", pos |-> Len(rs) + 1, prev |-> ks]]

\* one next() on the generator in state g over the stream rs:
\* kind "yield" with the pair (key, group), "stop" for StopIteration, or the
\* exception the generator raises; g is the generator's state afterwards
safe_groupby_next(rs, ks, g) ==
    CASE g.st = "start" /\ ks /= <<>> -> first_group(rs, ks, g)
      [] g.st = "start" /\ ks = <<>>  -> single_group(rs, ks, g)
      [] g.st = "loop"                -> next_group(rs, ks, g)
      [] OTHER                        -> Stopped(g)

----------------------------------------------------------------------------
(* Reducers: the rows a reducer yields for a group, and the exception it   *)
(* raises, if any.                                                         *)

\* the result column of CountRows and Count
Column == "c"

Yielded(rs) == [rows |-> rs, err |-> "none"]
Raised(e) == [rows |-> <<>>, err |-> e]

FirstReducer(group_key, rs) ==
    Yielded(IF rs = <<>> THEN <<>> ELSE <<rs[1]>>)

CountRows(group_key, rs) == Yielded(<< <<Item(Column, Len(rs))>> >>)

\* {key: row[key] for key in group_key}
RECURSIVE Project(_, _, _)
Project(row, group_key, n) ==
    IF n = 0 THEN <<>>
    ELSE DictSet(Project(row, group_key, n - 1), group_key[n],
                 Get(row, group_key[n]))

\* row = next(iter(rows)) raises StopIteration on an empty group, which the
\* reducer's generator turns into RuntimeError
Count(group_key, rs) ==
    IF rs = <<>> THEN Raised("RuntimeError")
    ELSE Yielded(<< DictSet(Project(rs[1], group_key, Len(group_key)),
                            Column, Len(rs)) >>)

Reducers == {"FirstReducer", "CountRows", "Count"}

\* self.reducer(group_key, rs)
ApplyReducer(r, group_key, rs) ==
    CASE r = "FirstReducer" -> FirstReducer(group_key, rs)
      [] r = "CountRows"    -> CountRows(group_key, rs)
      [] r = "Count"        -> Count(group_key, rs)

----------------------------------------------------------------------------
(* Reduce.__call__:                                                        *)
(*     for _, group in _safe_groupby(rows, self.keys):                     *)
(*         yield from self.reducer(tuple(self.keys), group)                *)
(* One action per next() on the generator of groups.                       *)

Call(ks, a, b) == [key_names |-> ks, rows_a |-> a, rows_b |-> b]

\* a group is yielded and handed to the reducer; its rows go to the output
ReduceGroup ==
    /\ op = "Reduce"
    /\ pc \in {"start", "loop"}
    /\ LET n == safe_groupby_next(rows, keys, rows_left)
           res == ApplyReducer(reducer, keys, n.group)
       IN  /\ n.kind = "yield"
           /\ rows_left' = n.g
           /\ calls' = Append(calls, Call(keys, n.group, <<>>))
           /\ out' = out \o res.rows
           /\ err' = res.err
           /\ pc' = IF res.err = "none" THEN "loop" ELSE "failed"
    /\ UNCHANGED <<op, rows, args0, keys, reducer, joiner, join_type,
                   rows_right, cur_left, cur_right>>
    /\ UNCHANGED <<mapper, first_call, sorter, graph_vars>>

\* the generator of groups raises: the exception ends the output stream
ReduceRaise ==
    /\ op = "Reduce"
    /\ pc \in {"start", "loop"}
    /\ LET n == safe_groupby_next(rows, keys, rows_left)
       IN  /\ n.kind \in {"RuntimeError", "ValueError"}
           /\ rows_left' = n.g
           /\ err' = n.kind
           /\ pc' = "failed"
    /\ UNCHANGED <<op, rows, args0, keys, reducer, joiner, join_type,
                   rows_right, cur_left, cur_right, calls, out>>
    /\ UNCHANGED <<mapper, first_call, sorter, graph_vars>>

\* the generator of groups is exhausted: the output stream ends
ReduceStop ==
    /\ op = "Reduce"
    /\ pc \in {"start", "loop"}
    /\ LET n == safe_groupby_next(rows, keys, rows_left)
       IN  /\ n.kind = "stop"
           /\ rows_left' = n.g
           /\ pc' = "done"
    /\ UNCHANGED <<op, rows, args0, keys, reducer, joiner, join_type,
                   rows_right, cur_left, cur_right, calls, out, err>>
    /\ UNCHANGED <<mapper, first_call, sorter, graph_vars>>

----------------------------------------------------------------------------
(* Inputs of Reduce. *)

\* the finite sequences over S of length at most n
SeqsUpTo(S, n) == UNION {[1..m -> S] : m \in 0..n}

\* a row of Reduce's input: a key column k and a second column v
ReduceRow(k, v) == <<Item("k", k), Item("v", v)>>

ReduceRows == {ReduceRow(k, v) : k \in 1..MaxKey, v \in 1..MaxKey}

ReduceKeys == {<<>>, <<"k">>, <<"k", "v">>}

None == [none |-> TRUE, key |-> <<>>, group |-> <<>>]
Some(k, g) == [none |-> FALSE, key |-> k, group |-> g]

NoJoiner == [strategy |-> "none", a_suffix |-> "", b_suffix |-> ""]

\* no first call to compare with
NoFirst == [out |-> <<>>, err |-> "none", pc |-> "none"]

\* no ExternalSort is running
NoSorter == [pos |-> 0, runs |-> <<>>]

\* no Graph object and no stream
NoGraph ==
    /\ nodes = <<>>
    /\ streams = <<>>
    /\ frames = <<>>
    /\ heap = <<>>

InitReduce ==
    /\ op = "Reduce"
    /\ rows \in SeqsUpTo(ReduceRows, MaxRows)
    /\ keys \in ReduceKeys
    /\ reducer \in Reducers
    /\ args0 = <<>>
    /\ joiner = NoJoiner
    /\ join_type = "any"
    /\ rows_left = NewGroupby
    /\ rows_right = NewGroupby
    /\ cur_left = None
    /\ cur_right = None
    /\ calls = <<>>
    /\ out = <<>>
    /\ err = "none"
    /\ pc = "start"
    /\ mapper = "none"
    /\ first_call = NoFirst
    /\ sorter = NoSorter
    /\ NoGraph

NextReduce == ReduceGroup \/ ReduceRaise \/ ReduceStop

SpecReduce == InitReduce /\ [][NextReduce]_vars

----------------------------------------------------------------------------
(* What the claims about Reduce speak of, stated on the input stream alone. *)

Terminated == pc \in {"done", "failed"}

\* the stream is ascending by the key tuple: no row's key is below the
\* key of the row before it
SortedBy(rs, ks) ==
    \A i \in 1..(Len(rs) - 1) : ~KeyLess(KeyOf(rs[i + 1], ks), KeyOf(rs[i], ks))

\* the indices at which a maximal run of rows with equal keys begins
RunStarts(rs, ks) ==
    {i \in 1..Len(rs) : i = 1 \/ KeyOf(rs[i], ks) /= KeyOf(rs[i - 1], ks)}

\* the index at which the j-th maximal run begins
RunStart(rs, ks, j) ==
    CHOOSE i \in RunStarts(rs, ks) :
        Cardinality({h \in RunStarts(rs, ks) : h <= i}) = j

\* the rows of the j-th maximal run
Run(rs, ks, j) ==
    LET first == RunStart(rs, ks, j)
        last  == IF j = Cardinality(RunStarts(rs, ks)) THEN Len(rs)
                 ELSE RunStart(rs, ks, j + 1) - 1
    IN  SubSeq(rs, first, last)

\* two adjacent groups with a strictly decreasing key
DecreasingGroups(rs, ks) ==
    \E j \in 1..(Cardinality(RunStarts(rs, ks)) - 1) :
        KeyLess(KeyOf(rs[RunStart(rs, ks, j + 1)], ks),
                KeyOf(rs[RunStart(rs, ks, j)], ks))

\* the reducer's outputs for the first n runs, concatenated
RECURSIVE ReducedRuns(_)
ReducedRuns(n) ==
    IF n = 0 THEN <<>>
    ELSE ReducedRuns(n - 1) \o ApplyReducer(reducer, keys, Run(rows, keys, n)).rows

\* C1: on a non-empty stream sorted by a non-empty key tuple, Reduce calls
\* the reducer once per maximal run of equal keys, in input order, with the
\* key names and the run's rows, and the output is the concatenation of the
\* reducer's outputs in that order; at the end every run has been handed over.
C1_ReduceOncePerRun ==
    (op = "Reduce" /\ rows /= <<>> /\ keys /= <<>> /\ SortedBy(rows, keys))
    => /\ pc /= "failed"
       /\ Len(calls) <= Cardinality(RunStarts(rows, keys))
       /\ \A j \in 1..Len(calls) :
             calls[j] = Call(keys, Run(rows, keys, j), <<>>)
       /\ out = ReducedRuns(Len(calls))
       /\ pc = "done" => Len(calls) = Cardinality(RunStarts(rows, keys))

\* a finished Reduce of a sorted stream with several runs, one of several rows
C1_Witness ==
    /\ op = "Reduce" /\ pc = "done" /\ keys /= <<>> /\ SortedBy(rows, keys)
    /\ Len(calls) >= 2
    /\ \E j \in 1..Len(calls) : Len(calls[j].rows_a) >= 2

\* C2: on a non-empty stream and a non-empty key tuple, the output stream of
\* Reduce ends with the ordering error (ValueError) exactly if two adjacent
\* groups have a strictly decreasing key, and never raises it before the end.
C2_ReduceUnsortedIff ==
    (op = "Reduce" /\ rows /= <<>> /\ keys /= <<>>)
    => /\ err \in {"none", "ValueError"}
       /\ err = "ValueError" => DecreasingGroups(rows, keys)
       /\ (Terminated /\ DecreasingGroups(rows, keys)) => err = "ValueError"

\* the ordering error raised after two groups were reduced
C2_Witness ==
    /\ op = "Reduce" /\ pc = "failed" /\ err = "ValueError"
    /\ keys /= <<>> /\ Len(calls) >= 2

\* the first row of every maximal run, in order
FirstRows(rs, ks) ==
    [j \in 1..Cardinality(RunStarts(rs, ks)) |-> rs[RunStart(rs, ks, j)]]

\* C9: on every stream sorted by a non-empty key tuple, the empty stream
\* included, Reduce with FirstReducer ends without error and has yielded
\* exactly the first row of each key's group, in key order.
C9_FirstReducerAnySorted ==
    (op = "Reduce" /\ reducer = "FirstReducer" /\ keys /= <<>>
        /\ SortedBy(rows, keys) /\ Terminated)
    => (pc = "done" /\ err = "none" /\ out = FirstRows(rows, keys))

\* C10: with the empty key tuple Reduce calls the reducer exactly once, with
\* the whole input stream as its group, whatever the rows and their order,
\* and raises no ordering error; with CountRows the output is the one row
\* {c: n}, n the number of input rows.
C10_ReduceEmptyKeys ==
    (op = "Reduce" /\ keys = <<>>)
    => /\ Len(calls) <= 1
       /\ err /= "ValueError"
       /\ Terminated =>
             /\ calls = <<Call(<<>>, rows, <<>>)>>
             /\ reducer = "CountRows" =>
                   /\ pc = "done"
                   /\ AsMaps(out) = << {<<Column, Len(rows)>>} >>

\* CountRows over the empty stream, and over an unsorted stream
C10_Witness ==
    /\ op = "Reduce" /\ keys = <<>> /\ pc = "done" /\ reducer = "CountRows"
    /\ \/ rows = <<>> /\ AsMaps(out) = << {<<Column, 0>>} >>
       \/ ~SortedBy(rows, <<"k">>) /\ Len(rows) = MaxRows

----------------------------------------------------------------------------
(* Joiners.  A joiner is [strategy, a_suffix, b_suffix].                   *)

Range(f) == {f[i] : i \in DOMAIN f}

\* the suffixes are used as given even when join_type is 'right'
relevant_suffixes_unswapped(j, jt) == <<j.a_suffix, j.b_suffix>>

\* <<relevant_suffix_a, relevant_suffix_b>>
relevant_suffixes(j, jt) ==
    IF jt = "right" THEN <<j.b_suffix, j.a_suffix>>
    ELSE <<j.a_suffix, j.b_suffix>>

\* the body of "for key, value in left_row.items()" for one item
merge_item(row, key, value, ks, suffixes) ==
    IF ~Has(row, key)
    THEN DictSet(row, key, value)
    ELSE IF key \notin Range(ks)
    THEN DictSet(DictSet(DictDel(row, key), key \o suffixes[1], value),
                 key \o suffixes[2], Get(row, key))
    ELSE row

\* new_row after the first n items of left_row have been merged into it;
\* the row of the previous iteration is one value, bound once
RECURSIVE merge_items(_, _, _, _, _)
merge_items(new_row, left_row, ks, suffixes, n) ==
    IF n = 0 THEN new_row
    ELSE CHOOSE merged \in
             {merge_item(row, left_row[n].name, left_row[n].val, ks, suffixes) :
                 row \in {merge_items(new_row, left_row, ks, suffixes, n - 1)}} :
             TRUE

\* the row yielded for one pair: new_row = right_row.copy(), then the merge
combined_row(ks, left_row, right_row, suffixes) ==
    merge_items(right_row, left_row, ks, suffixes, Len(left_row))

\* the rows common_join_part yields: for each left row, for each right row
common_join_part(j, ks, left_rows, right_rows, jt) ==
    LET nr == Len(right_rows)
    IN  [n \in 1..(Len(left_rows) * nr) |->
            combined_row(ks, left_rows[((n - 1) \div nr) + 1],
                         right_rows[((n - 1) % nr) + 1],
                         relevant_suffixes(j, jt))]

\* the inner strategy passing left rows through when the right group is empty
InnerJoiner_passes_left(j, ks, rows_a, rows_b) ==
    IF rows_b /= <<>>
    THEN common_join_part(j, ks, rows_a, rows_b, "any")
    ELSE rows_a

InnerJoiner(j, ks, rows_a, rows_b) ==
    common_join_part(j, ks, rows_a, rows_b, "any")

OuterJoiner(j, ks, rows_a, rows_b) ==
    IF rows_a /= <<>> /\ rows_b /= <<>>
    THEN common_join_part(j, ks, rows_a, rows_b, "any")
    ELSE IF rows_a /= <<>> THEN rows_a
    ELSE IF rows_b /= <<>> THEN rows_b
    ELSE <<>>

LeftJoiner(j, ks, rows_a, rows_b) ==
    IF rows_b /= <<>>
    THEN common_join_part(j, ks, rows_a, rows_b, "any")
    ELSE rows_a

RightJoiner(j, ks, rows_a, rows_b) ==
    IF rows_a /= <<>>
    THEN common_join_part(j, ks, rows_b, rows_a, "right")
    ELSE rows_b

Strategies == {"Inner", "Outer", "Left", "Right"}

\* self.joiner(keys, rows_a, rows_b)
ApplyJoiner(j, ks, rows_a, rows_b) ==
    CASE j.strategy = "Inner" -> InnerJoiner(j, ks, rows_a, rows_b)
      [] j.strategy = "Outer" -> OuterJoiner(j, ks, rows_a, rows_b)
      [] j.strategy = "Left"  -> LeftJoiner(j, ks, rows_a, rows_b)
      [] j.strategy = "Right" -> RightJoiner(j, ks, rows_a, rows_b)

----------------------------------------------------------------------------
(* Join.__call__: the sorted-merge loop over the two generators of groups. *)
(* cur_left is the pair (keys_left, rows_left_group), None for (None,None).*)
(* Key values are integers: a key is never None and two keys are always    *)
(* comparable, so "keys_left is not None" holds whenever the group is not  *)
(* None and exactly one of ==, > and < holds.                              *)

IsError(kind) == kind \in {"RuntimeError", "ValueError"}

\* next(gen, (None, None)): the pair of a yield, (None, None) at the end
Pair(n) == IF n.kind = "yield" THEN Some(n.key, n.group) ELSE None

NextLeft == safe_groupby_next(rows, keys, rows_left)

\* the right input grouped by itertools.groupby alone, its order unchecked
NextRight_unchecked ==
    safe_groupby_next(args0, keys,
        IF rows_right.st = "loop" /\ rows_right.pos <= Len(args0)
        THEN [rows_right EXCEPT !.prev = KeyOf(args0[rows_right.pos], keys)]
        ELSE rows_right)

NextRight == safe_groupby_next(args0, keys, rows_right)

\* keys_left, rows_left_group = next(rows_left, (None, None)); an exception
\* leaves the assignment undone and ends the output stream
AdvanceLeft ==
    /\ rows_left' = NextLeft.g
    /\ cur_left' = IF IsError(NextLeft.kind) THEN cur_left ELSE Pair(NextLeft)

AdvanceRight ==
    /\ rows_right' = NextRight.g
    /\ cur_right' = IF IsError(NextRight.kind) THEN cur_right ELSE Pair(NextRight)

\* the state of the stream after the next() calls of a step
Ends(kind) ==
    /\ err' = IF IsError(kind) THEN kind ELSE "none"
    /\ pc' = IF IsError(kind) THEN "failed" ELSE "loop"

\* the two groups are handed to the joiner in the other order
Emit_swapped(rows_a, rows_b) ==
    /\ calls' = Append(calls, Call(keys, rows_b, rows_a))
    /\ out' = out \o ApplyJoiner(joiner, keys, rows_b, rows_a)

\* yield from self.joiner(self.keys, rows_a, rows_b)
Emit(rows_a, rows_b) ==
    /\ calls' = Append(calls, Call(keys, rows_a, rows_b))
    /\ out' = out \o ApplyJoiner(joiner, keys, rows_a, rows_b)

BothPresent == ~cur_left.none /\ ~cur_right.none

\* lines 149-153: the two generators are made and each is asked for its
\* first pair, the left one first
JoinStart ==
    /\ op = "Join"
    /\ pc = "start"
    /\ AdvanceLeft
    /\ IF IsError(NextLeft.kind)
       THEN /\ Ends(NextLeft.kind)
            /\ UNCHANGED <<rows_right, cur_right>>
       ELSE /\ AdvanceRight
            /\ Ends(NextRight.kind)
    /\ UNCHANGED <<op, rows, args0, keys, reducer, joiner, join_type, calls, out>>
    /\ UNCHANGED <<mapper, first_call, sorter, graph_vars>>

\* keys_left == keys_right: the two groups are joined, both sides advance
JoinEqual ==
    /\ op = "Join"
    /\ pc = "loop"
    /\ BothPresent
    /\ cur_left.key = cur_right.key
    /\ Emit(cur_left.group, cur_right.group)
    /\ AdvanceLeft
    /\ IF IsError(NextLeft.kind)
       THEN /\ Ends(NextLeft.kind)
            /\ UNCHANGED <<rows_right, cur_right>>
       ELSE /\ AdvanceRight
            /\ Ends(NextRight.kind)
    /\ UNCHANGED <<op, rows, args0, keys, reducer, joiner, join_type>>
    /\ UNCHANGED <<mapper, first_call, sorter, graph_vars>>

\* keys_left > keys_right taken for keys_left < keys_right: the left group
\* is joined with [], left advances
JoinRightSmaller_takes_left ==
    /\ op = "Join"
    /\ pc = "loop"
    /\ BothPresent
    /\ KeyLess(cur_right.key, cur_left.key)
    /\ Emit(cur_left.group, <<>>)
    /\ AdvanceLeft
    /\ Ends(NextLeft.kind)
    /\ UNCHANGED <<op, rows, args0, keys, reducer, joiner, join_type,
                   rows_right, cur_right>>
    /\ UNCHANGED <<mapper, first_call, sorter, graph_vars>>

\* keys_left > keys_right: the right group is joined with [], right advances
JoinRightSmaller ==
    /\ op = "Join"
    /\ pc = "loop"
    /\ BothPresent
    /\ KeyLess(cur_right.key, cur_left.key)
    /\ Emit(<<>>, cur_right.group)
    /\ AdvanceRight
    /\ Ends(NextRight.kind)
    /\ UNCHANGED <<op, rows, args0, keys, reducer, joiner, join_type,
                   rows_left, cur_left>>
    /\ UNCHANGED <<mapper, first_call, sorter, graph_vars>>

\* keys_left < keys_right: the left group is joined with [], left advances
JoinLeftSmaller ==
    /\ op = "Join"
    /\ pc = "loop"
    /\ BothPresent
    /\ KeyLess(cur_left.key, cur_right.key)
    /\ Emit(cur_left.group, <<>>)
    /\ AdvanceLeft
    /\ Ends(NextLeft.kind)
    /\ UNCHANGED <<op, rows, args0, keys, reducer, joiner, join_type,
                   rows_right, cur_right>>
    /\ UNCHANGED <<mapper, first_call, sorter, graph_vars>>

\* elif rows_left_group is not None: the right side is exhausted
JoinLeftOnly ==
    /\ op = "Join"
    /\ pc = "loop"
    /\ ~BothPresent
    /\ ~cur_left.none
    /\ Emit(cur_left.group, <<>>)
    /\ AdvanceLeft
    /\ Ends(NextLeft.kind)
    /\ UNCHANGED <<op, rows, args0, keys, reducer, joiner, join_type,
                   rows_right, cur_right>>
    /\ UNCHANGED <<mapper, first_call, sorter, graph_vars>>

\* elif rows_right_group is not None: the left side is exhausted
JoinRightOnly ==
    /\ op = "Join"
    /\ pc = "loop"
    /\ cur_left.none
    /\ ~cur_right.none
    /\ Emit(<<>>, cur_right.group)
    /\ AdvanceRight
    /\ Ends(NextRight.kind)
    /\ UNCHANGED <<op, rows, args0, keys, reducer, joiner, join_type,
                   rows_left, cur_left>>
    /\ UNCHANGED <<mapper, first_call, sorter, graph_vars>>

\* else: break
JoinBreak ==
    /\ op = "Join"
    /\ pc = "loop"
    /\ cur_left.none
    /\ cur_right.none
    /\ pc' = "done"
    /\ UNCHANGED <<op, rows, args0, keys, reducer, joiner, join_type, rows_left,
                   rows_right, cur_left, cur_right, calls, out, err>>
    /\ UNCHANGED <<mapper, first_call, sorter, graph_vars>>

----------------------------------------------------------------------------
(* Inputs of Join: the i-th row of the left input has the columns id, v    *)
(* and a, the i-th row of the right input id, v and w; v tells the rows of *)
(* a side apart.  The rows of a left input may all have a further column   *)
(* v_1, named like the suffixed column v.                                  *)

LeftRow(i, k, with_v_1) ==
    IF with_v_1
    THEN <<Item("id", k), Item("v", 10 + i), Item("v_1", 30 + i), Item("a", 1)>>
    ELSE <<Item("id", k), Item("v", 10 + i), Item("a", 1)>>

RightRow(i, k) == <<Item("id", k), Item("v", 20 + i), Item("w", 2)>>

LeftStream(ids, with_v_1) == [i \in 1..Len(ids) |-> LeftRow(i, ids[i], with_v_1)]
RightStream(ids) == [i \in 1..Len(ids) |-> RightRow(i, ids[i])]

JoinKeys == {<<>>, <<"id">>}

DefaultJoiner(s) == [strategy |-> s, a_suffix |-> "_1", b_suffix |-> "_2"]

InitJoin ==
    /\ op = "Join"
    /\ \E ids \in SeqsUpTo(1..MaxKey, MaxSide), with_v_1 \in BOOLEAN :
          rows = LeftStream(ids, with_v_1)
    /\ \E ids \in SeqsUpTo(1..MaxKey, MaxSide) : args0 = RightStream(ids)
    /\ keys \in JoinKeys
    /\ \E s \in Strategies : joiner = DefaultJoiner(s)
    /\ reducer = "none"
    /\ join_type = "any"
    /\ rows_left = NewGroupby
    /\ rows_right = NewGroupby
    /\ cur_left = None
    /\ cur_right = None
    /\ calls = <<>>
    /\ out = <<>>
    /\ err = "none"
    /\ pc = "start"
    /\ mapper = "none"
    /\ first_call = NoFirst
    /\ sorter = NoSorter
    /\ NoGraph

NextJoin ==
    \/ JoinStart
    \/ JoinEqual
    \/ JoinRightSmaller
    \/ JoinLeftSmaller
    \/ JoinLeftOnly
    \/ JoinRightOnly
    \/ JoinBreak

SpecJoin == InitJoin /\ [][NextJoin]_vars

----------------------------------------------------------------------------
(* The combine primitive on its own: common_join_part called with one left *)
(* row and one right row.  The rows are all dicts with the join key id and *)
(* any of the columns v and v_1, in every insertion order, so that a       *)
(* column of one row may be named like a suffixed column of the other.     *)

\* the writes of the merge go to right_row itself (no copy is made)
right_row_aliased(right_row, new_row) == new_row

\* new_row = right_row.copy(): right_row as the call leaves it, new_row being
\* the row the merge wrote to
right_row_after(right_row, new_row) == right_row

\* the dicts with pairwise different names made of the given items
DictsOver(items) ==
    {d \in UNION {[1..m -> items] : m \in 1..Cardinality(items)} :
        \A i, h \in 1..Len(d) : i /= h => d[i].name /= d[h].name}

CombineLeftRows ==
    {d \in DictsOver({Item("id", 1), Item("v", 10), Item("v_1", 11)}) :
        Has(d, "id")}

CombineRightRows ==
    {d \in DictsOver({Item("id", 1), Item("v", 20), Item("v_1", 21)}) :
        Has(d, "id")}

InitCombine ==
    /\ op = "Combine"
    /\ \E l \in CombineLeftRows : rows = <<l>>
    /\ \E r \in CombineRightRows : args0 = <<r>>
    /\ keys \in JoinKeys
    /\ joiner = DefaultJoiner("Inner")
    /\ join_type \in {"any", "right"}
    /\ reducer = "none"
    /\ rows_left = NewGroupby
    /\ rows_right = NewGroupby
    /\ cur_left = None
    /\ cur_right = None
    /\ calls = <<>>
    /\ out = <<>>
    /\ err = "none"
    /\ pc = "start"
    /\ mapper = "none"
    /\ first_call = NoFirst
    /\ sorter = NoSorter
    /\ NoGraph

\* list(self.common_join_part(keys, left_rows, right_rows, join_type))
Combine ==
    /\ op = "Combine"
    /\ pc = "start"
    /\ calls' = <<Call(keys, rows, args0)>>
    /\ out' = common_join_part(joiner, keys, rows, args0, join_type)
    /\ args0' = [n \in 1..Len(args0) |->
                    right_row_after(args0[n],
                        combined_row(keys, rows[Len(rows)], args0[n],
                                     relevant_suffixes(joiner, join_type)))]
    /\ pc' = "done"
    /\ UNCHANGED <<op, rows, keys, reducer, joiner, join_type, rows_left,
                   rows_right, cur_left, cur_right, err>>
    /\ UNCHANGED <<mapper, first_call, sorter, graph_vars>>

NextCombine == Combine

SpecCombine == InitCombine /\ [][NextCombine]_vars

----------------------------------------------------------------------------
(* Mappers: the rows a mapper yields for a row, the row as the call leaves *)
(* it (a mapper may write to the row it is given), and the exception it    *)
(* raises, if any.  A text is a sequence of characters.                    *)

MapYielded(rs, row) == [rows |-> rs, arg |-> row, err |-> "none"]

\* the column Split splits and Filter's condition reads
TextColumn == "text"

DummyMapper(row) == MapYielded(<<row>>, row)

\* the index after the longest run from p of characters that are (space =
\* TRUE) or are not (space = FALSE) white space
RECURSIVE RunOf(_, _, _)
RunOf(text, p, space) ==
    IF p <= Len(text) /\ ((text[p] = " ") <=> space)
    THEN RunOf(text, p + 1, space)
    ELSE p

\* [part.group().strip() for part in re.finditer('(\S*)\s*', text)] from
\* position p on; the empty match at the end of the text is left out, its
\* value being empty
RECURSIVE finditer(_, _)
finditer(text, p) ==
    IF p > Len(text) THEN <<>>
    ELSE LET q == RunOf(text, p, FALSE)
             r == RunOf(text, q, TRUE)
         IN  <<SubSeq(text, p, q - 1)>> \o finditer(text, r)

\* for each non-empty value: new_row = row.copy(); new_row[column] = value
Split(row) ==
    LET values == SelectSeq(finditer(Get(row, TextColumn), 1),
                            LAMBDA value : value /= <<>>)
    IN  MapYielded([n \in 1..Len(values) |->
                       DictSet(row, TextColumn, values[n])], row)

\* the condition given to Filter: lambda row: row['k'] == 1
condition(row) == Get(row, "k") = 1

Filter(row) == MapYielded(IF condition(row) THEN <<row>> ELSE <<>>, row)

\* Project(['text']): {column: row[column] for column in self.columns}
ProjectMapper(row) ==
    MapYielded(<< <<Item(TextColumn, Get(row, TextColumn))>> >>, row)

\* a / b of Python for integers: the quotient when it is whole (as a float
\* it equals the integer), the fraction otherwise
Quotient(a, b) == IF a % b = 0 THEN a \div b ELSE [num |-> a, den |-> b]

\* Divide('v', 'k', 'v'): row[result] = row[nominator] / row[denominator],
\* written to the row it is given; a missing column raises KeyError, a zero
\* denominator ValueError
Divide(row) ==
    IF ~Has(row, "v") \/ ~Has(row, "k")
    THEN [rows |-> <<>>, arg |-> row, err |-> "KeyError"]
    ELSE IF Get(row, "k") = 0
    THEN [rows |-> <<>>, arg |-> row, err |-> "ValueError"]
    ELSE LET new_row == DictSet(row, "v", Quotient(Get(row, "v"), Get(row, "k")))
         IN  MapYielded(<<new_row>>, new_row)

\* Project(['v'])
ProjectValue(row) ==
    IF ~Has(row, "v")
    THEN [rows |-> <<>>, arg |-> row, err |-> "KeyError"]
    ELSE MapYielded(<< <<Item("v", Get(row, "v"))>> >>, row)

\* the characters of string.punctuation that occur in the texts
Punctuation == {"!", ","}

\* row[column] = row[column].translate(self.maketrans), written to the row
\* it is given; yield row
FilterPunctuation(row) ==
    IF ~Has(row, TextColumn)
    THEN [rows |-> <<>>, arg |-> row, err |-> "KeyError"]
    ELSE LET new_row == DictSet(row, TextColumn,
                            SelectSeq(Get(row, TextColumn),
                                      LAMBDA ch : ch \notin Punctuation))
         IN  MapYielded(<<new_row>>, new_row)

\* str.lower on one character of the texts
lower(ch) ==
    CASE ch = "A" -> "a"
      [] ch = "B" -> "b"
      [] OTHER    -> ch

\* row[column] = self._lower_case(row[column]), written to the row it is
\* given; yield row
LowerCase(row) ==
    IF ~Has(row, TextColumn)
    THEN [rows |-> <<>>, arg |-> row, err |-> "KeyError"]
    ELSE LET text == Get(row, TextColumn)
             new_row == DictSet(row, TextColumn,
                                [i \in 1..Len(text) |-> lower(text[i])])
         IN  MapYielded(<<new_row>>, new_row)

Mappers == {"DummyMapper", "Split", "Filter", "Project"}

\* self.mapper(row)
ApplyMapper(m, row) ==
    CASE m = "DummyMapper"  -> DummyMapper(row)
      [] m = "Split"        -> Split(row)
      [] m = "Filter"       -> Filter(row)
      [] m = "Project"      -> ProjectMapper(row)
      [] m = "Divide"       -> Divide(row)
      [] m = "ProjectValue" -> ProjectValue(row)
      [] m = "FilterPunctuation" -> FilterPunctuation(row)
      [] m = "LowerCase"    -> LowerCase(row)

\* the mappers that yield the row object they are given (yield row); the
\* others yield new dicts
YieldsArgument(m) ==
    m \in {"DummyMapper", "Filter", "Divide", "FilterPunctuation", "LowerCase"}

----------------------------------------------------------------------------
(* Map.__call__:                                                           *)
(*     for row in rows:                                                    *)
(*         yield from self.mapper(row)                                     *)
(* One action per row of the input; calls logs the mapper's invocations.   *)

\* only the first row the mapper yields is passed on
yield_from_first_only(yielded, rs) ==
    yielded \o (IF rs = <<>> THEN <<>> ELSE <<rs[1]>>)

\* yield from: every row of rs is yielded, in order
yield_from(yielded, rs) == yielded \o rs

\* the next input row is given to the mapper, the rows it yields are yielded
MapRow ==
    /\ op = "Map"
    /\ pc \in {"start", "loop"}
    /\ Len(calls) < Len(rows)
    /\ LET row == rows[Len(calls) + 1]
           res == ApplyMapper(mapper, row)
       IN  /\ calls' = Append(calls, Call(<<>>, <<row>>, <<>>))
           /\ out' = yield_from(out, res.rows)
           /\ rows' = [rows EXCEPT ![Len(calls) + 1] = res.arg]
           /\ err' = res.err
           /\ pc' = IF res.err = "none" THEN "loop" ELSE "failed"
    /\ UNCHANGED <<op, args0, keys, reducer, joiner, join_type, rows_left,
                   rows_right, cur_left, cur_right, mapper, first_call,
                   sorter, graph_vars>>

\* the input is exhausted: the output stream ends
MapStop ==
    /\ op = "Map"
    /\ pc \in {"start", "loop"}
    /\ Len(calls) = Len(rows)
    /\ pc' = "done"
    /\ UNCHANGED <<op, rows, args0, keys, reducer, joiner, join_type, rows_left,
                   rows_right, cur_left, cur_right, calls, out, err, mapper,
                   first_call, sorter, graph_vars>>

\* the texts of Map's input rows: empty, blank, one word, two words with
\* more white space than needed
Texts ==
    {<<>>, <<" ">>, <<"a">>, <<"b", " ", "a">>, <<" ", "a", " ", " ", "b">>}

MapInputRow(k, text) == <<Item("k", k), Item(TextColumn, text)>>

MapInputRows == {MapInputRow(k, text) : k \in 1..MaxKey, text \in Texts}

InitMap ==
    /\ op = "Map"
    /\ rows \in SeqsUpTo(MapInputRows, MaxRows)
    /\ mapper \in Mappers
    /\ args0 = <<>>
    /\ keys = <<>>
    /\ reducer = "none"
    /\ joiner = NoJoiner
    /\ join_type = "any"
    /\ rows_left = NewGroupby
    /\ rows_right = NewGroupby
    /\ cur_left = None
    /\ cur_right = None
    /\ calls = <<>>
    /\ out = <<>>
    /\ err = "none"
    /\ pc = "start"
    /\ first_call = NoFirst
    /\ sorter = NoSorter
    /\ NoGraph

NextMap == MapRow \/ MapStop

SpecMap == InitMap /\ [][NextMap]_vars

----------------------------------------------------------------------------
(* Two calls that are compared: Join(InnerJoiner('_1', '_2'), K)(A, B),    *)
(* and then, on the same rows, Join(InnerJoiner('_2', '_1'), K)(B, A).     *)

\* Joiner.__init__ with the two suffixes exchanged
SwappedJoiner(j) ==
    [strategy |-> j.strategy, a_suffix |-> j.b_suffix, b_suffix |-> j.a_suffix]

InitSwap ==
    /\ InitJoin
    /\ joiner.strategy = "Inner"

\* the first call has ended: its outcome is kept, and the second Join is
\* made and called with the inputs exchanged
SwapCall ==
    /\ op = "Join"
    /\ pc \in {"done", "failed"}
    /\ first_call = NoFirst
    /\ first_call' = [out |-> out, err |-> err, pc |-> pc]
    /\ rows' = args0
    /\ args0' = rows
    /\ joiner' = SwappedJoiner(joiner)
    /\ rows_left' = NewGroupby
    /\ rows_right' = NewGroupby
    /\ cur_left' = None
    /\ cur_right' = None
    /\ calls' = <<>>
    /\ out' = <<>>
    /\ err' = "none"
    /\ pc' = "start"
    /\ UNCHANGED <<op, keys, reducer, join_type, mapper, sorter, graph_vars>>

NextSwap == NextJoin \/ SwapCall

SpecSwap == InitSwap /\ [][NextSwap]_vars

----------------------------------------------------------------------------
(* Graph objects (compgraph/graph.py).  A Graph is [operation, parents];   *)
(* its parents are Graph objects, named here by their index in nodes.  An  *)
(* operation is a record of its type and the fields __init__ sets.         *)

\* Graph.__init__
Graph(operation, parents) == [operation |-> operation, parents |-> parents]

\* ExternalSort is given the first key only
sort_first_key(self, ks) ==
    Graph([type |-> "ExternalSort", keys |-> SubSeq(ks, 1, 1)], <<self>>)

\* Graph.sort: Graph(ext_sort.ExternalSort(keys), [self])
sort(self, ks) == Graph([type |-> "ExternalSort", keys |-> ks], <<self>>)

----------------------------------------------------------------------------
(* ExternalSort (compgraph/external_sort.py), after section 4.5 of the     *)
(* specification: the input is read in buffers of at most CHUNK rows, each *)
(* buffer is sorted stably by the key tuple and kept as a sorted run, and  *)
(* the runs are merged by a min-heap keyed by (key_tuple, run_index).      *)
(* sorter is [pos, runs]: the number of rows read and the rows of each run *)
(* that are still to be emitted.                                           *)

\* the row count of the in-memory buffer
CHUNK == 2

\* row put into the sorted buffer after every row whose key is not above its
RECURSIVE StableInsert(_, _, _)
StableInsert(sorted, row, ks) ==
    IF sorted = <<>> THEN <<row>>
    ELSE IF KeyLess(KeyOf(row, ks), KeyOf(sorted[Len(sorted)], ks))
    THEN Append(StableInsert(SubSeq(sorted, 1, Len(sorted) - 1), row, ks),
                sorted[Len(sorted)])
    ELSE Append(sorted, row)

\* the buffer sorted stably by the key tuple
RECURSIVE StableSort(_, _)
StableSort(buffer, ks) ==
    IF buffer = <<>> THEN <<>>
    ELSE StableInsert(StableSort(SubSeq(buffer, 1, Len(buffer) - 1), ks),
                      buffer[Len(buffer)], ks)

\* the top of the heap: the run whose first row has the least
\* (key_tuple, run_index)
HeapTop(runs, ks) ==
    CHOOSE i \in 1..Len(runs) :
        /\ runs[i] /= <<>>
        /\ \A j \in 1..Len(runs) :
              (j /= i /\ runs[j] /= <<>>)
              => \/ KeyLess(KeyOf(runs[i][1], ks), KeyOf(runs[j][1], ks))
                 \/ /\ KeyOf(runs[i][1], ks) = KeyOf(runs[j][1], ks)
                    /\ i < j

\* steps 1, 2 and 4: the next buffer is read, sorted and kept as a run
SortRead ==
    /\ op = "Sort"
    /\ pc \in {"start", "loop"}
    /\ sorter.pos < Len(rows)
    /\ LET last == IF sorter.pos + CHUNK < Len(rows) THEN sorter.pos + CHUNK
                   ELSE Len(rows)
           buffer == SubSeq(rows, sorter.pos + 1, last)
       IN  sorter' = [pos |-> last,
                      runs |-> Append(sorter.runs, StableSort(buffer, keys))]
    /\ pc' = "loop"
    /\ UNCHANGED <<op, rows, args0, keys, reducer, joiner, join_type, rows_left,
                   rows_right, cur_left, cur_right, calls, out, err, mapper,
                   first_call, graph_vars>>

\* steps 3 and 5: the input is exhausted, the first row of the top run is
\* emitted
SortEmit ==
    /\ op = "Sort"
    /\ pc \in {"start", "loop"}
    /\ sorter.pos = Len(rows)
    /\ \E i \in 1..Len(sorter.runs) : sorter.runs[i] /= <<>>
    /\ LET i == HeapTop(sorter.runs, keys)
       IN  /\ out' = Append(out, sorter.runs[i][1])
           /\ sorter' = [sorter EXCEPT !.runs[i] = Tail(sorter.runs[i])]
    /\ pc' = "loop"
    /\ UNCHANGED <<op, rows, args0, keys, reducer, joiner, join_type, rows_left,
                   rows_right, cur_left, cur_right, calls, err, mapper,
                   first_call, graph_vars>>

\* every run is empty: the output stream ends
SortStop ==
    /\ op = "Sort"
    /\ pc \in {"start", "loop"}
    /\ sorter.pos = Len(rows)
    /\ \A i \in 1..Len(sorter.runs) : sorter.runs[i] = <<>>
    /\ pc' = "done"
    /\ UNCHANGED <<op, rows, args0, keys, reducer, joiner, join_type, rows_left,
                   rows_right, cur_left, cur_right, calls, out, err, mapper,
                   first_call, sorter, graph_vars>>

SortKeys == {<<"k">>, <<"v">>, <<"k", "v">>, <<"v", "k">>}

\* Graph.sort(K) has been called on a source node, the call is logged, and
\* the operation of the node it returned is called with the stream rows
InitSort ==
    /\ op = "Sort"
    /\ rows \in SeqsUpTo(ReduceRows, MaxRows)
    /\ \E K \in SortKeys :
          /\ calls = <<Call(K, <<>>, <<>>)>>
          /\ nodes = <<Graph([type |-> "ReadIterGenerator", name |-> "x"], <<>>),
                       sort(1, K)>>
    /\ keys = nodes[2].operation.keys
    /\ sorter = NoSorter
    /\ args0 = <<>>
    /\ reducer = "none"
    /\ mapper = "none"
    /\ joiner = NoJoiner
    /\ join_type = "any"
    /\ rows_left = NewGroupby
    /\ rows_right = NewGroupby
    /\ cur_left = None
    /\ cur_right = None
    /\ out = <<>>
    /\ err = "none"
    /\ pc = "start"
    /\ first_call = NoFirst
    /\ streams = <<>>
    /\ frames = <<>>
    /\ heap = <<>>

NextSort == SortRead \/ SortEmit \/ SortStop

SpecSort == InitSort /\ [][NextSort]_vars

----------------------------------------------------------------------------
(* The other builders of compgraph/graph.py.  Each returns a new Graph and *)
(* touches nothing else.                                                   *)

\* Graph.graph_from_iter: Graph(ops.ReadIterGenerator(name), [])
graph_from_iter(name) ==
    Graph([type |-> "ReadIterGenerator", name |-> name], <<>>)

\* Graph.graph_from_file: Graph(ops.Read(filename, parser), [])
graph_from_file(filename) ==
    Graph([type |-> "Read", filename |-> filename], <<>>)

\* Graph.map: Graph(ops.Map(mapper), [self])
map(self, m) == Graph([type |-> "Map", mapper |-> m], <<self>>)

\* Graph.reduce: Graph(ops.Reduce(reducer, keys), [self])
reduce(self, r, ks) ==
    Graph([type |-> "Reduce", reducer |-> r, keys |-> ks], <<self>>)

\* Graph.join: Graph(ops.Join(joiner, keys), [self, join_graph])
join(self, j, join_graph, ks) ==
    Graph([type |-> "Join", joiner |-> j, keys |-> ks], <<self, join_graph>>)

\* Graph.copy: Graph(self._operation, self._parents), self a node of ns
copy_of(ns, self) == Graph(ns[self].operation, ns[self].parents)

copy(self) == copy_of(nodes, self)

----------------------------------------------------------------------------
(* Running a graph (Graph.run).  Graph.run is a generator function: a call *)
(* returns a generator and executes nothing; the first next() on it makes  *)
(* the generators of the parents (one parent.run for each, not started) and *)
(* delegates to the generator of the operation (yield from).               *)
(*                                                                         *)
(* A generator is named by the stream it belongs to and by its place: the  *)
(* path of parent positions from the terminal node.  frames holds the      *)
(* generators that have been started: [node, st, loc] with st "suspended"  *)
(* (at a yield) or "finished" and loc the local variables; a generator     *)
(* that is not in frames has not been started.  The frame of a place       *)
(* stands for the run generator and the operation generator it delegates   *)
(* to.                                                                     *)
(*                                                                         *)
(* A row travelling through a stream is an element [ref, val]: ref > 0     *)
(* names a dict of the heap (a row object a supplier hands out, which      *)
(* other streams may hold too), ref = 0 is a dict only this stream holds,  *)
(* with the value val.                                                     *)

Ref(i) == [ref |-> i, val |-> <<>>]
Val(row) == [ref |-> 0, val |-> row]
NoElem == Val(<<>>)

\* the value of the dict an element names
Deref(h, e) == IF e.ref = 0 THEN e.val ELSE h[e.ref]

\* one generator for a place whatever the stream
FrameId_shared(s, place) == <<1, place>>

\* the generator of a place of a stream
FrameId(s, place) == <<s, place>>

\* one generator for a parent node whatever the consumer
ParentPlace_by_node(place, i, parent) == <<0, parent>>

\* parents_run[i] of the generator at place: a generator of its own
ParentPlace(place, i, parent) == Append(place, i)

\* v under the name the operator In gives it
With(v, In(_)) == In(v)

\* the outcome of a next(): kind is "yield", "stop" (StopIteration) or the
\* exception raised; S is the state the call leaves
Result(kind, e, S) == [kind |-> kind, elem |-> e, S |-> S]

Started(S, place) == FrameId(S.s, place) \in DOMAIN S.frames

Frame(S, place) == S.frames[FrameId(S.s, place)]

SetFrame(S, place, f) ==
    [S EXCEPT !.frames =
        [id \in DOMAIN S.frames \cup {FrameId(S.s, place)} |->
            IF id = FrameId(S.s, place) THEN f ELSE S.frames[id]]]

SetLoc(S, place, loc) == SetFrame(S, place, [Frame(S, place) EXCEPT !.loc = loc])

\* the first next() enters the body
Start(S, place, n, loc) ==
    IF Started(S, place) THEN S
    ELSE SetFrame(S, place, [node |-> n, st |-> "suspended", loc |-> loc])

\* the generator returns or raises
Finish(S, place) ==
    SetFrame(S, place, [Frame(S, place) EXCEPT !.st = "finished"])

\* an invocation of user code or the opening of a file, by the stream
Event(kind, what) == <<kind, what>>

Logged(S, e) == [S EXCEPT !.log = Append(@, e)]

\* a call has written row to the dict the element names
Written(S, e, row) ==
    IF e.ref = 0 THEN S ELSE [S EXCEPT !.heap[e.ref] = row]

\* the element after that write
WrittenElem(e, row) == IF e.ref = 0 THEN Val(row) ELSE e

\* the lines of the file and the parser given to graph_from_file: a line is
\* the pair of its two numbers
FileLines == << <<1, 1024>>, <<2, 1024>> >>

parser(line) == ReduceRow(line[1], line[2])

RECURSIVE gen_next(_, _, _)
RECURSIVE Map_next(_, _, _)
RECURSIVE groupby_next(_, _, _, _, _)
RECURSIVE Reduce_next(_, _, _)
RECURSIVE list(_, _, _, _, _)

\* next() on parents_run[side] of the generator of node n at place
parent_next(S, place, n, side) ==
    gen_next(S, ParentPlace(place, side, nodes[n].parents[side]),
             nodes[n].parents[side])

\* ReadIterGenerator.__call__: for row in kwargs[self.name](): yield row
ReadIterGenerator_next(S, place, n) ==
    IF ~Started(S, place) /\ nodes[n].operation.name \notin DOMAIN S.kwargs
    THEN Result("KeyError", NoElem,
                Finish(Start(S, place, n, [pos |-> 1]), place))
    ELSE With(IF Started(S, place) THEN S
              ELSE Logged(Start(S, place, n, [pos |-> 1]),
                          Event("supplier", nodes[n].operation.name)),
         LAMBDA S1 :
         With(Frame(S1, place).loc.pos, LAMBDA pos :
         IF pos <= Len(S1.kwargs[nodes[n].operation.name])
         THEN Result("yield", Ref(S1.kwargs[nodes[n].operation.name][pos]),
                     SetLoc(S1, place, [pos |-> pos + 1]))
         ELSE Result("stop", NoElem, Finish(S1, place))))

\* Read.__call__: with open(self.filename) as f: for line in f: yield
\* self.parser(line).  The file is open while the generator is suspended.
Read_next(S, place, n) ==
    With(IF Started(S, place) THEN S
         ELSE Logged(Start(S, place, n, [pos |-> 1]),
                     Event("open", nodes[n].operation.filename)),
    LAMBDA S1 :
    With(Frame(S1, place).loc.pos, LAMBDA pos :
    IF pos <= Len(FileLines)
    THEN Result("yield", Val(parser(FileLines[pos])),
                SetLoc(S1, place, [pos |-> pos + 1]))
    ELSE Result("stop", NoElem, Finish(S1, place))))

\* the elements a mapper yields for the element e, res being what it does
\* for the row of e
MapperYields(m, e, res) ==
    [i \in 1..Len(res.rows) |->
        IF YieldsArgument(m) THEN WrittenElem(e, res.arg)
        ELSE Val(res.rows[i])]

\* Map.__call__ reading ahead: the next input row is pulled, and given to
\* the mapper, when the last row yielded for the row before it is delivered
Map_next_reading_ahead(S, place, n) ==
    With(Start(S, place, n, [pending |-> <<>>]), LAMBDA S1 :
    With(Frame(S1, place).loc.pending, LAMBDA pending :
    IF Len(pending) > 1
    THEN Result("yield", Head(pending),
                SetLoc(S1, place, [pending |-> Tail(pending)]))
    ELSE With(parent_next(S1, place, n, 1), LAMBDA r :
         IF r.kind /= "yield"
         THEN IF pending /= <<>>
              THEN Result("yield", Head(pending),
                          SetLoc(r.S, place, [pending |-> <<>>]))
              ELSE Result(r.kind, NoElem, Finish(r.S, place))
         ELSE With(ApplyMapper(nodes[n].operation.mapper,
                               Deref(r.S.heap, r.elem)),
              LAMBDA res :
              With(SetLoc(Written(r.S, r.elem, res.arg), place,
                          [pending |-> MapperYields(nodes[n].operation.mapper,
                                                    r.elem, res)]),
              LAMBDA S2 :
              IF pending /= <<>>
              THEN Result("yield", Head(pending), S2)
              ELSE Map_next(S2, place, n))))))

\* Map.__call__: for row in rows: yield from self.mapper(row).  pending are
\* the rows the mapper called last has still to yield.
Map_next(S, place, n) ==
    With(Start(S, place, n, [pending |-> <<>>]), LAMBDA S1 :
    With(Frame(S1, place).loc.pending, LAMBDA pending :
    IF pending /= <<>>
    THEN Result("yield", Head(pending),
                SetLoc(S1, place, [pending |-> Tail(pending)]))
    ELSE With(parent_next(S1, place, n, 1), LAMBDA r :
         IF r.kind /= "yield"
         THEN Result(r.kind, NoElem, Finish(r.S, place))
         ELSE With(ApplyMapper(nodes[n].operation.mapper,
                               Deref(r.S.heap, r.elem)),
              LAMBDA res :
              With(Logged(Written(r.S, r.elem, res.arg),
                          Event("mapper", nodes[n].operation.mapper)),
              LAMBDA S2 :
              IF res.err /= "none"
              THEN Result(res.err, NoElem, Finish(S2, place))
              ELSE Map_next(SetLoc(S2, place,
                                [pending |->
                                    MapperYields(nodes[n].operation.mapper,
                                                 r.elem, res)]),
                            place, n))))))

----------------------------------------------------------------------------
(* itertools.groupby over a parent stream, as its C implementation reads   *)
(* the stream: the groupby object holds currkey, tgtkey and currvalue (the *)
(* row read ahead), and a group (_grouper) reads the stream through it,    *)
(* one row at a time.  The keys are self.keys of the operation of node n.  *)

NullKey == [null |-> TRUE, key |-> <<>>]
Key(k) == [null |-> FALSE, key |-> k]
NullValue == [null |-> TRUE, elem |-> NoElem]
Value(e) == [null |-> FALSE, elem |-> e]

\* itertools.groupby(rows, itemgetter(*keys))
groupby == [currkey |-> NullKey, tgtkey |-> NullKey, currvalue |-> NullValue]

GroupbyResult(kind, gb, S) == [kind |-> kind, gb |-> gb, S |-> S]

\* itemgetter(*keys)(row) raises KeyError for a row without a key column
HasKeys(row, ks) == \A i \in 1..Len(ks) : Has(row, ks[i])

\* groupby_step: newvalue = next(it); newkey = keyfunc(newvalue);
\* currvalue = newvalue; currkey = newkey
groupby_step(S, gb, place, n, side) ==
    With(parent_next(S, place, n, side), LAMBDA r :
    IF r.kind /= "yield" THEN GroupbyResult(r.kind, gb, r.S)
    ELSE With(Deref(r.S.heap, r.elem), LAMBDA row :
         IF ~HasKeys(row, nodes[n].operation.keys)
         THEN GroupbyResult("KeyError", gb, r.S)
         ELSE GroupbyResult("ok",
                  [gb EXCEPT !.currkey = Key(KeyOf(row, nodes[n].operation.keys)),
                             !.currvalue = Value(r.elem)],
                  r.S)))

\* groupby_next: rows are read until currkey differs from tgtkey; then
\* tgtkey = currkey and (currkey, _grouper) is returned
groupby_next(S, gb, place, n, side) ==
    IF ~gb.currkey.null /\ (gb.tgtkey.null \/ gb.tgtkey /= gb.currkey)
    THEN GroupbyResult("ok", [gb EXCEPT !.tgtkey = gb.currkey], S)
    ELSE With(groupby_step(S, gb, place, n, side), LAMBDA st :
         IF st.kind /= "ok" THEN st
         ELSE groupby_next(st.S, st.gb, place, n, side))

\* _grouper_next: the row read ahead, or the next row of the stream, if its
\* key is tgtkey
grouper_next(S, gb, place, n, side) ==
    With(IF gb.currvalue.null THEN groupby_step(S, gb, place, n, side)
         ELSE GroupbyResult("ok", gb, S),
    LAMBDA st :
    IF st.kind /= "ok"
    THEN [kind |-> st.kind, elem |-> NoElem, gb |-> st.gb, S |-> st.S]
    ELSE IF st.gb.tgtkey /= st.gb.currkey
    THEN [kind |-> "stop", elem |-> NoElem, gb |-> st.gb, S |-> st.S]
    ELSE [kind |-> "yield", elem |-> st.gb.currvalue.elem,
          gb |-> [st.gb EXCEPT !.currvalue = NullValue], S |-> st.S])

----------------------------------------------------------------------------
(* _safe_groupby over a parent stream.  The generator at place keeps, for  *)
(* each parent it groups, loc.sg[side] (where _safe_groupby stands and its *)
(* prev_keys) and loc.gb[side] (the groupby object).  With keys the group  *)
(* it yields is a _grouper, without keys it is the parent stream itself.   *)

safe_groupby == [st |-> "start", prev |-> <<>>]

Loc(S, place) == Frame(S, place).loc

SetSide(S, place, side, sg, gb) ==
    SetLoc(S, place, [Loc(S, place) EXCEPT !.sg[side] = sg, !.gb[side] = gb])

\* the _safe_groupby generator of a side has ended
EndSide(S, place, side, gb) ==
    SetSide(S, place, side, [Loc(S, place).sg[side] EXCEPT !.st = "done"], gb)

GroupResult(kind, S) == [kind |-> kind, S |-> S]

\* next() on the _safe_groupby generator of a side: kind is "group", "stop"
\* or the exception raised
lazy_safe_groupby_next(S, place, n, side) ==
    With(Loc(S, place).sg[side], LAMBDA sg :
    With(Loc(S, place).gb[side], LAMBDA gb :
    CASE sg.st = "start" /\ nodes[n].operation.keys = <<>> ->
             GroupResult("group",
                         SetSide(S, place, side, [sg EXCEPT !.st = "last"], gb))
      [] sg.st \in {"last", "done"} ->
             GroupResult("stop", EndSide(S, place, side, gb))
      [] OTHER ->
             With(groupby_next(S, gb, place, n, side), LAMBDA g :
             IF g.kind = "stop"
             THEN GroupResult(IF sg.st = "start" THEN "RuntimeError" ELSE "stop",
                              EndSide(g.S, place, side, g.gb))
             ELSE IF g.kind /= "ok"
             THEN GroupResult(g.kind, EndSide(g.S, place, side, g.gb))
             ELSE IF sg.st = "loop" /\ Unsorted(sg.prev, g.gb.tgtkey.key)
             THEN GroupResult("ValueError", EndSide(g.S, place, side, g.gb))
             ELSE GroupResult("group",
                      SetSide(g.S, place, side,
                              [st |-> "loop",
                               prev |-> IF sg.st = "start" THEN g.gb.tgtkey.key
                                        ELSE NextPrev(sg.prev, g.gb.tgtkey.key)],
                              g.gb)))))

\* next() on the group of a side that _safe_groupby yielded last
rows_next(S, place, n, side) ==
    IF nodes[n].operation.keys = <<>>
    THEN With(parent_next(S, place, n, side), LAMBDA r :
         [kind |-> r.kind, elem |-> r.elem, S |-> r.S])
    ELSE With(grouper_next(S, Loc(S, place).gb[side], place, n, side),
         LAMBDA r :
         [kind |-> r.kind, elem |-> r.elem,
          S |-> SetSide(r.S, place, side, Loc(r.S, place).sg[side], r.gb)])

\* list(group): the rows of the group that are left, read one by one; acc
\* are the rows read so far
list(S, place, n, side, acc) ==
    With(rows_next(S, place, n, side), LAMBDA r :
    IF r.kind = "yield" THEN list(r.S, place, n, side, Append(acc, r.elem))
    ELSE [kind |-> IF r.kind = "stop" THEN "ok" ELSE r.kind,
          elems |-> acc, S |-> r.S])

Derefs(h, elems) == [i \in 1..Len(elems) |-> Deref(h, elems[i])]

----------------------------------------------------------------------------
(* Reduce.__call__ over a parent stream.  loc.in_reducer: the generator is *)
(* suspended at the yield of the reducer it delegates to.  FirstReducer    *)
(* reads one row of the group and yields it; CountRows and Count read the  *)
(* whole group and yield a new dict.                                       *)

ReadsWholeGroup(r) == r \in {"CountRows", "Count"}

\* the reducer yields e
ReducerYields(e, S, place) ==
    Result("yield", e,
           SetLoc(S, place, [Loc(S, place) EXCEPT !.in_reducer = TRUE]))

\* resumed at the yield of the reducer, the reducer returns
ReducerReturns(S, place) ==
    SetLoc(S, place, [Loc(S, place) EXCEPT !.in_reducer = FALSE])

Reduce_next(S, place, n) ==
    With(ReducerReturns(Start(S, place, n,
                              [sg |-> <<safe_groupby>>, gb |-> <<groupby>>,
                               in_reducer |-> FALSE]), place),
    LAMBDA S1 :
    With(lazy_safe_groupby_next(S1, place, n, 1), LAMBDA g :
    IF g.kind /= "group"
    THEN Result(g.kind, NoElem, Finish(g.S, place))
    ELSE IF ReadsWholeGroup(nodes[n].operation.reducer)
    THEN With(list(Logged(g.S, Event("reducer", nodes[n].operation.reducer)),
                   place, n, 1, <<>>),
         LAMBDA l :
         IF l.kind /= "ok" THEN Result(l.kind, NoElem, Finish(l.S, place))
         ELSE With(ApplyReducer(nodes[n].operation.reducer,
                                nodes[n].operation.keys,
                                Derefs(l.S.heap, l.elems)),
              LAMBDA res :
              IF res.err /= "none"
              THEN Result(res.err, NoElem, Finish(l.S, place))
              ELSE ReducerYields(Val(res.rows[1]), l.S, place)))
    ELSE With(rows_next(Logged(g.S, Event("reducer",
                                          nodes[n].operation.reducer)),
                        place, n, 1),
         LAMBDA f :
         IF f.kind = "yield" THEN ReducerYields(f.elem, f.S, place)
         ELSE IF f.kind = "stop" THEN Reduce_next(f.S, place, n)
         ELSE Result(f.kind, NoElem, Finish(f.S, place)))))

----------------------------------------------------------------------------
(* Join.__call__ over two parent streams.  loc.pc is "start" before the    *)
(* two generators of groups have been asked for their first group and      *)
(* "loop" after; loc.cur[side] is (keys, group) of a side, or (None, None).*)
(* loc.jn is the generator of the joiner called last: what it yields       *)
(* (mode "cjp": the rows of common_join_part, mode "pass": its left rows   *)
(* as they are), where its left rows come from (lsrc: the group of side 1  *)
(* or 2, read as it goes, or 0: the list llist, read up to li), the list   *)
(* of right rows rlist, the left row cur being combined, the number j of   *)
(* right rows it has been combined with, the join_type jt, and the sides   *)
(* Join asks for their next group once the joiner has ended (after).       *)

NoJoin ==
    [active |-> FALSE, mode |-> "pass", lsrc |-> 0, llist |-> <<>>, li |-> 0,
     rlist |-> <<>>, cur |-> NullValue, j |-> 0, jt |-> "any", after |-> <<>>]

NoGroup == [none |-> TRUE, key |-> <<>>]

RECURSIVE AdvanceSides(_, _, _, _)
RECURSIVE JoinerNext(_, _, _)
RECURSIVE Join_next(_, _, _)

\* keys, group = next(rows_left, (None, None)), for each of sides in turn
AdvanceSides(S, place, n, sides) ==
    IF sides = <<>> THEN GroupResult("ok", S)
    ELSE With(lazy_safe_groupby_next(S, place, n, Head(sides)), LAMBDA g :
         IF g.kind \notin {"group", "stop"} THEN g
         ELSE AdvanceSides(
                  SetLoc(g.S, place,
                         [Loc(g.S, place) EXCEPT !.cur[Head(sides)] =
                             IF g.kind = "stop" THEN NoGroup
                             ELSE [none |-> FALSE,
                                   key |-> Loc(g.S, place).gb[Head(sides)]
                                               .tgtkey.key]]),
                  place, n, Tail(sides)))

\* list(rows) for an argument of the joiner: the group of a side, or [] (0)
list_of(S, place, n, src) ==
    IF src = 0 THEN [kind |-> "ok", elems |-> <<>>, S |-> S]
    ELSE list(S, place, n, src, <<>>)

\* the joiner's generator stands as jn
JoinerMade(kind, S, place, jn) ==
    GroupResult(kind, SetLoc(S, place, [Loc(S, place) EXCEPT !.jn = jn]))

NewJoin(after) == [NoJoin EXCEPT !.active = TRUE, !.after = after]

\* self.joiner(self.keys, rows_a, rows_b) up to where its generator
\* delegates: the lists it makes of its arguments, and the generator it
\* delegates to
JoinerStart(S, place, n, a, b, after) ==
    CASE nodes[n].operation.joiner.strategy = "Inner" ->
             With(list_of(S, place, n, b), LAMBDA lb :
             IF lb.kind /= "ok" THEN JoinerMade(lb.kind, lb.S, place, NoJoin)
             ELSE JoinerMade("ok", lb.S, place,
                      [NewJoin(after) EXCEPT !.mode = "cjp", !.lsrc = a,
                                             !.rlist = lb.elems]))
      [] nodes[n].operation.joiner.strategy = "Outer" ->
             With(list_of(S, place, n, a), LAMBDA la :
             IF la.kind /= "ok" THEN JoinerMade(la.kind, la.S, place, NoJoin)
             ELSE With(list_of(la.S, place, n, b), LAMBDA lb :
                  IF lb.kind /= "ok"
                  THEN JoinerMade(lb.kind, lb.S, place, NoJoin)
                  ELSE IF la.elems /= <<>> /\ lb.elems /= <<>>
                  THEN JoinerMade("ok", lb.S, place,
                           [NewJoin(after) EXCEPT !.mode = "cjp",
                                                  !.llist = la.elems,
                                                  !.rlist = lb.elems])
                  ELSE IF la.elems /= <<>>
                  THEN JoinerMade("ok", lb.S, place,
                           [NewJoin(after) EXCEPT !.llist = la.elems])
                  ELSE JoinerMade("ok", lb.S, place,
                           [NewJoin(after) EXCEPT !.llist = lb.elems])))
      [] nodes[n].operation.joiner.strategy = "Left" ->
             With(list_of(S, place, n, b), LAMBDA lb :
             IF lb.kind /= "ok" THEN JoinerMade(lb.kind, lb.S, place, NoJoin)
             ELSE IF lb.elems /= <<>>
             THEN JoinerMade("ok", lb.S, place,
                      [NewJoin(after) EXCEPT !.mode = "cjp", !.lsrc = a,
                                             !.rlist = lb.elems])
             ELSE JoinerMade("ok", lb.S, place,
                      [NewJoin(after) EXCEPT !.lsrc = a]))
      [] nodes[n].operation.joiner.strategy = "Right" ->
             With(list_of(S, place, n, a), LAMBDA la :
             IF la.kind /= "ok" THEN JoinerMade(la.kind, la.S, place, NoJoin)
             ELSE IF la.elems /= <<>>
             THEN JoinerMade("ok", la.S, place,
                      [NewJoin(after) EXCEPT !.mode = "cjp", !.lsrc = b,
                                             !.rlist = la.elems,
                                             !.jt = "right"])
             ELSE JoinerMade("ok", la.S, place,
                      [NewJoin(after) EXCEPT !.lsrc = b]))

\* next() on the left rows of the joiner; an empty list for []
left_next(S, place, n) ==
    With(Loc(S, place).jn, LAMBDA jn :
    IF jn.lsrc = 0
    THEN IF jn.li < Len(jn.llist)
         THEN [kind |-> "yield", elem |-> jn.llist[jn.li + 1],
               S |-> SetLoc(S, place,
                            [Loc(S, place) EXCEPT !.jn.li = jn.li + 1])]
         ELSE [kind |-> "stop", elem |-> NoElem, S |-> S]
    ELSE rows_next(S, place, n, jn.lsrc))

\* next() on the generator of the joiner: for left_row in left_rows: for
\* right_row in right_rows: ... yield new_row, or yield from left_rows
JoinerNext(S, place, n) ==
    With(Loc(S, place).jn, LAMBDA jn :
    IF jn.mode = "cjp" /\ ~jn.cur.null /\ jn.j < Len(jn.rlist)
    THEN [kind |-> "yield",
          elem |-> Val(combined_row(nodes[n].operation.keys,
                           Deref(S.heap, jn.cur.elem),
                           Deref(S.heap, jn.rlist[jn.j + 1]),
                           relevant_suffixes(nodes[n].operation.joiner,
                                             jn.jt))),
          S |-> SetLoc(S, place, [Loc(S, place) EXCEPT !.jn.j = jn.j + 1])]
    ELSE With(left_next(S, place, n), LAMBDA r :
         IF r.kind /= "yield" \/ jn.mode = "pass" THEN r
         ELSE JoinerNext(
                  SetLoc(r.S, place,
                         [Loc(r.S, place) EXCEPT !.jn.cur = Value(r.elem),
                                                 !.jn.j = 0]),
                  place, n)))

\* Join goes on after a step that ended as a.kind
JoinThen(a, place, n) ==
    IF a.kind /= "ok" THEN Result(a.kind, NoElem, Finish(a.S, place))
    ELSE Join_next(a.S, place, n)

\* yield from self.joiner(self.keys, a, b), and the next() calls after it
CallJoiner(S, place, n, a, b, after) ==
    JoinThen(JoinerStart(Logged(S, Event("joiner",
                                    nodes[n].operation.joiner.strategy)),
                         place, n, a, b, after),
             place, n)

Join_next(S, place, n) ==
    With(Start(S, place, n,
               [pc |-> "start", sg |-> <<safe_groupby, safe_groupby>>,
                gb |-> <<groupby, groupby>>, cur |-> <<NoGroup, NoGroup>>,
                jn |-> NoJoin]),
    LAMBDA S1 :
    With(Loc(S1, place), LAMBDA loc :
    IF loc.pc = "start"
    THEN JoinThen(AdvanceSides(SetLoc(S1, place, [loc EXCEPT !.pc = "loop"]),
                               place, n, <<1, 2>>),
                  place, n)
    ELSE IF loc.jn.active
    THEN With(JoinerNext(S1, place, n), LAMBDA r :
         IF r.kind = "yield" THEN Result("yield", r.elem, r.S)
         ELSE IF r.kind /= "stop"
         THEN Result(r.kind, NoElem, Finish(r.S, place))
         ELSE JoinThen(AdvanceSides(
                           SetLoc(r.S, place,
                                  [Loc(r.S, place) EXCEPT !.jn = NoJoin]),
                           place, n, loc.jn.after),
                       place, n))
    ELSE IF ~loc.cur[1].none /\ ~loc.cur[2].none
    THEN IF loc.cur[1].key = loc.cur[2].key
         THEN CallJoiner(S1, place, n, 1, 2, <<1, 2>>)
         ELSE IF KeyLess(loc.cur[2].key, loc.cur[1].key)
         THEN CallJoiner(S1, place, n, 0, 2, <<2>>)
         ELSE CallJoiner(S1, place, n, 1, 0, <<1>>)
    ELSE IF ~loc.cur[1].none THEN CallJoiner(S1, place, n, 1, 0, <<1>>)
    ELSE IF ~loc.cur[2].none THEN CallJoiner(S1, place, n, 0, 2, <<2>>)
    ELSE Result("stop", NoElem, Finish(S1, place))))

----------------------------------------------------------------------------
(* ExternalSort over a parent stream, after section 4.5 of the             *)
(* specification: the first next() reads the whole input and sorts it      *)
(* stably by the key tuple (the merge of the sorted runs is the stable     *)
(* sort of the input).  An input of at most CHUNK rows is emitted from the *)
(* buffer, the row objects as they came; a longer input is emitted from    *)
(* the runs spilled to temp files, as new row objects.  loc.pending are    *)
(* the rows still to emit.                                                 *)

RECURSIVE read_all(_, _, _, _, _)
RECURSIVE sorted_elems(_, _, _)

\* the rows of the parent stream, read to its end
read_all(S, place, n, side, acc) ==
    With(parent_next(S, place, n, side), LAMBDA r :
    IF r.kind = "yield" THEN read_all(r.S, place, n, side, Append(acc, r.elem))
    ELSE [kind |-> IF r.kind = "stop" THEN "ok" ELSE r.kind,
          elems |-> acc, S |-> r.S])

\* row goes after every row of sorted whose key is not above its key
insert_elem(h, sorted, e, ks) ==
    With(Cardinality({i \in 1..Len(sorted) :
                         ~KeyLess(KeyOf(Deref(h, e), ks),
                                  KeyOf(Deref(h, sorted[i]), ks))}),
    LAMBDA before :
    SubSeq(sorted, 1, before) \o <<e>> \o SubSeq(sorted, before + 1, Len(sorted)))

\* elems in ascending order of their keys, equal keys in input order
sorted_elems(h, elems, ks) ==
    IF elems = <<>> THEN <<>>
    ELSE insert_elem(h, sorted_elems(h, SubSeq(elems, 1, Len(elems) - 1), ks),
                     elems[Len(elems)], ks)

\* the next of the rows still to emit
emit_next(S, place, pending) ==
    IF pending = <<>> THEN Result("stop", NoElem, Finish(S, place))
    ELSE Result("yield", Head(pending),
                SetLoc(S, place, [pending |-> Tail(pending)]))

\* the rows as emitted: from the buffer, or from the spilled runs
emitted(h, sorted) ==
    IF Len(sorted) <= CHUNK THEN sorted
    ELSE [i \in 1..Len(sorted) |-> Val(Deref(h, sorted[i]))]

ExternalSort_next(S, place, n) ==
    IF Started(S, place) THEN emit_next(S, place, Loc(S, place).pending)
    ELSE With(read_all(Start(S, place, n, [pending |-> <<>>]), place, n, 1,
                       <<>>),
         LAMBDA l :
         IF l.kind /= "ok" THEN Result(l.kind, NoElem, Finish(l.S, place))
         ELSE IF \E i \in 1..Len(l.elems) :
                     ~HasKeys(Deref(l.S.heap, l.elems[i]),
                              nodes[n].operation.keys)
         THEN Result("KeyError", NoElem, Finish(l.S, place))
         ELSE emit_next(l.S, place,
                        emitted(l.S.heap,
                                sorted_elems(l.S.heap, l.elems,
                                             nodes[n].operation.keys))))

\* next() on the generator of node n at place; an exhausted generator
\* raises StopIteration again
gen_next(S, place, n) ==
    IF Started(S, place) /\ Frame(S, place).st = "finished"
    THEN Result("stop", NoElem, S)
    ELSE CASE nodes[n].operation.type = "ReadIterGenerator" ->
                  ReadIterGenerator_next(S, place, n)
           [] nodes[n].operation.type = "Read" -> Read_next(S, place, n)
           [] nodes[n].operation.type = "Map" -> Map_next(S, place, n)
           [] nodes[n].operation.type = "Reduce" -> Reduce_next(S, place, n)
           [] nodes[n].operation.type = "Join" -> Join_next(S, place, n)
           [] nodes[n].operation.type = "ExternalSort" ->
                  ExternalSort_next(S, place, n)

----------------------------------------------------------------------------
(* The program that builds graphs and runs them: it builds the source      *)
(* nodes, derives at most MaxOps nodes from the nodes it has, runs the     *)
(* node it built last and pulls rows from the stream, which it may close   *)
(* early.                                                                  *)

\* the variables of the single operations
op_vars == <<op, rows, args0, keys, reducer, joiner, join_type, rows_left,
             rows_right, cur_left, cur_right, calls, out, err, pc, mapper,
             first_call, sorter>>

\* at most MaxOps nodes are derived from other nodes
MaxOps == 2

\* the source nodes, in the order the program builds them: 'x' is given to
\* run, 'y' is not
AllSources ==
    <<graph_from_iter("x"), graph_from_file("f"), graph_from_iter("y")>>

\* how many of the nodes are the source nodes built first
NumSources ==
    Cardinality({i \in 1..Len(nodes) :
        i <= Len(AllSources) /\ SubSeq(nodes, 1, i) = SubSeq(AllSources, 1, i)})

Building ==
    /\ op = "Graph"
    /\ streams = <<>>

Deriving ==
    /\ Building
    /\ nodes /= <<>>
    /\ Len(nodes) - NumSources < MaxOps

\* a node derived from nodes is derived from the node built last, once a
\* node has been derived
UsesLast(from) == Len(nodes) > NumSources => Len(nodes) \in from

Built(node) ==
    /\ nodes' = Append(nodes, node)
    /\ UNCHANGED <<streams, frames, heap, op_vars>>

CallGraphFromIter ==
    /\ Building
    /\ NumSources = Len(nodes)
    /\ Len(nodes) < Len(AllSources)
    /\ AllSources[Len(nodes) + 1].operation.type = "ReadIterGenerator"
    /\ Built(graph_from_iter(AllSources[Len(nodes) + 1].operation.name))

CallGraphFromFile ==
    /\ Building
    /\ NumSources = Len(nodes)
    /\ Len(nodes) < Len(AllSources)
    /\ AllSources[Len(nodes) + 1].operation.type = "Read"
    /\ Built(graph_from_file(AllSources[Len(nodes) + 1].operation.filename))

\* the mappers given to map
GraphMappers == {"DummyMapper", "Divide", "ProjectValue"}

\* the key lists given to reduce, sort and join
GraphKeys == {<<>>, <<"k">>}

CallMap ==
    /\ Deriving
    /\ \E self \in DOMAIN nodes, m \in GraphMappers :
          /\ UsesLast({self})
          /\ Built(map(self, m))

\* the reducers given to reduce
GraphReducers == Reducers

CallReduce ==
    /\ Deriving
    /\ \E self \in DOMAIN nodes, r \in GraphReducers, ks \in GraphKeys :
          /\ UsesLast({self})
          /\ Built(reduce(self, r, ks))

CallSort ==
    /\ Deriving
    /\ \E self \in DOMAIN nodes :
          /\ UsesLast({self})
          /\ Built(sort(self, <<"k">>))

CallJoin ==
    /\ Deriving
    /\ \E self \in DOMAIN nodes, s \in Strategies, join_graph \in DOMAIN nodes,
          ks \in GraphKeys :
          /\ UsesLast({self, join_graph})
          /\ Built(join(self, DefaultJoiner(s), join_graph, ks))

CallCopy ==
    /\ Deriving
    /\ \E self \in DOMAIN nodes :
          /\ UsesLast({self})
          /\ Built(copy(self))

\* the sources given to run: suppliers lambda: iter(data) over the first
\* half of the heap, or over the second half
SuppliersA == [x |-> [i \in 1..(Len(heap) \div 2) |-> i]]
SuppliersB == [x |-> [i \in 1..(Len(heap) \div 2) |-> (Len(heap) \div 2) + i]]

\* run calls the suppliers it is given before it returns
run_calling_suppliers(self, kwargs) ==
    [node |-> self, kwargs |-> kwargs, st |-> "created", pulls |-> 0,
     out |-> <<>>, err |-> "none", log |-> <<Event("supplier", "x")>>,
     given |-> heap]

\* Graph.run returns the generator, not started.  pulls counts the next()
\* calls of the consumer, given are the row objects as they were at the call.
run(self, kwargs) ==
    [node |-> self, kwargs |-> kwargs, st |-> "created", pulls |-> 0,
     out |-> <<>>, err |-> "none", log |-> <<>>, given |-> heap]

\* the program runs the node it built last
CallRun ==
    /\ op = "Graph"
    /\ nodes /= <<>>
    /\ streams = <<>>
    /\ streams' = <<run(Len(nodes), SuppliersA)>>
    /\ UNCHANGED <<nodes, frames, heap, op_vars>>

Live(s) == streams[s].st \in {"created", "suspended"}

\* next() on the terminal stream s
PullNext(s) ==
    /\ op = "Graph"
    /\ Live(s)
    /\ \E r \in {gen_next([s |-> s, kwargs |-> streams[s].kwargs,
                           frames |-> frames, heap |-> heap,
                           log |-> streams[s].log],
                          <<>>, streams[s].node)} :
          /\ frames' = r.S.frames
          /\ heap' = r.S.heap
          /\ streams' = [streams EXCEPT ![s] =
                [@ EXCEPT !.st = IF r.kind = "yield" THEN "suspended"
                                 ELSE "finished",
                          !.out = IF r.kind = "yield"
                                  THEN Append(@, Deref(r.S.heap, r.elem))
                                  ELSE @,
                          !.err = IF r.kind \in {"yield", "stop"} THEN @
                                  ELSE r.kind,
                          !.log = r.S.log,
                          !.pulls = @ + 1]]
    /\ UNCHANGED <<nodes, op_vars>>

Pull == \E s \in DOMAIN streams : PullNext(s)

\* close() on the terminal stream s: GeneratorExit is raised at the yield
\* the terminal generator is suspended at, which ends that generator and
\* the operation generator it delegates to; the generators of the parents
\* are locals of it and are not closed by it
CloseStream(s) ==
    /\ op = "Graph"
    /\ Live(s)
    /\ streams' = [streams EXCEPT ![s].st = "closed"]
    /\ frames' = [id \in DOMAIN frames |->
                    IF id = FrameId(s, <<>>)
                    THEN [frames[id] EXCEPT !.st = "finished"]
                    ELSE frames[id]]
    /\ UNCHANGED <<nodes, heap, op_vars>>

Close == \E s \in DOMAIN streams : CloseStream(s)

\* the generator id is suspended and the generator that held it has ended
Unreachable(id) ==
    /\ frames[id].st = "suspended"
    /\ id[2] /= <<>>
    /\ <<id[1], SubSeq(id[2], 1, Len(id[2]) - 1)>> \in DOMAIN frames
    /\ frames[<<id[1], SubSeq(id[2], 1, Len(id[2]) - 1)>>].st = "finished"

\* the interpreter finalizes an unreachable generator, at a time of its
\* choice: GeneratorExit is raised at its yield
Finalize ==
    /\ op = "Graph"
    /\ \E id \in DOMAIN frames :
          /\ Unreachable(id)
          /\ frames' = [frames EXCEPT ![id].st = "finished"]
    /\ UNCHANGED <<nodes, streams, heap, op_vars>>

\* the rows of the supplier of 'x'
XData ==
    {<<>>,
     <<ReduceRow(1, 1024), ReduceRow(2, 1024)>>,
     <<ReduceRow(2, 1024), ReduceRow(1, 1024)>>}

InitGraph ==
    /\ op = "Graph"
    /\ nodes = <<>>
    /\ streams = <<>>
    /\ frames = <<>>
    /\ \E data \in XData : heap = data \o data
    /\ rows = <<>>
    /\ args0 = <<>>
    /\ keys = <<>>
    /\ reducer = "none"
    /\ mapper = "none"
    /\ joiner = NoJoiner
    /\ join_type = "any"
    /\ rows_left = NewGroupby
    /\ rows_right = NewGroupby
    /\ cur_left = None
    /\ cur_right = None
    /\ calls = <<>>
    /\ out = <<>>
    /\ err = "none"
    /\ pc = "start"
    /\ first_call = NoFirst
    /\ sorter = NoSorter

NextGraph ==
    \/ CallGraphFromIter
    \/ CallGraphFromFile
    \/ CallMap
    \/ CallReduce
    \/ CallSort
    \/ CallJoin
    \/ CallCopy
    \/ CallRun
    \/ Pull
    \/ Close
    \/ Finalize

SpecGraph == InitGraph /\ [][NextGraph]_vars

----------------------------------------------------------------------------
(* The program that runs a graph twice: G.run with sources a and G.run     *)
(* with sources b, suppliers of their own, or G.run and G.copy().run with  *)
(* the same sources, the pulls from the two streams in any order.          *)

Build ==
    \/ CallGraphFromIter
    \/ CallGraphFromFile
    \/ CallMap
    \/ CallReduce
    \/ CallSort
    \/ CallJoin
    \/ CallCopy

RECURSIVE drain(_, _, _)
\* the rows a consumer collects by calling next() on the generator of node
\* n until it ends, the way it ends and the invocations made
drain(S, n, acc) ==
    With(gen_next(S, <<>>, n), LAMBDA r :
       IF r.kind = "yield"
       THEN drain(r.S, n, Append(acc, Deref(r.S.heap, r.elem)))
       ELSE [out |-> acc,
             err |-> IF r.kind = "stop" THEN "none" ELSE r.kind,
             log |-> r.S.log])

\* the run r, made as run number s, with a record of what it produces when
\* it is consumed alone: no generator of any run exists, and the rows of
\* its suppliers are as they are when run is called
Expecting(s, r) ==
    r @@ [alone |-> drain([s |-> s, kwargs |-> r.kwargs, frames |-> <<>>,
                           heap |-> r.given, log |-> <<>>],
                          r.node, <<>>)]

\* the program runs the node it built last, with the sources a
CallRunFirst ==
    /\ op = "Graph"
    /\ nodes /= <<>>
    /\ streams = <<>>
    /\ streams' = <<Expecting(1, run(Len(nodes), SuppliersA))>>
    /\ UNCHANGED <<nodes, frames, heap, op_vars>>

\* the graphs of at most this many derived nodes are run a second time
\* while the first run is still being consumed
MaxInterleaved == 1

\* the same node is run again, with the sources b: after the first run has
\* ended, or between its pulls
CallRunAgain ==
    /\ op = "Graph"
    /\ Len(streams) = 1
    /\ \/ streams[1].st = "finished"
       \/ Len(nodes) <= NumSources + MaxInterleaved
    /\ streams' = Append(streams,
                         Expecting(2, run(streams[1].node, SuppliersB)))
    /\ UNCHANGED <<nodes, frames, heap, op_vars>>

NextRuns == Build \/ CallRunFirst \/ CallRunAgain \/ Pull

SpecRuns == InitGraph /\ [][NextRuns]_vars

\* G.copy().run for the node G and the sources of the first run, once the
\* rows of G.run have been collected
CallCopyRun ==
    /\ op = "Graph"
    /\ Len(streams) = 1
    /\ streams[1].st = "finished"
    /\ nodes' = Append(nodes, copy(streams[1].node))
    /\ streams' = Append(streams, run(Len(nodes) + 1, streams[1].kwargs))
    /\ UNCHANGED <<frames, heap, op_vars>>

NextCopy == Build \/ CallRun \/ CallCopyRun \/ Pull

SpecCopy == InitGraph /\ [][NextCopy]_vars

----------------------------------------------------------------------------
(* Every operation. *)

Init == InitReduce \/ InitJoin \/ InitCombine

Next == NextReduce \/ NextJoin \/ NextCombine

Spec == Init /\ [][Next]_vars

----------------------------------------------------------------------------
(* What the claims about Join speak of, stated on the two input streams.   *)

NumRuns(rs, ks) == Cardinality(RunStarts(rs, ks))

\* the runs of a stream, in order
Runs(rs, ks) == [j \in 1..NumRuns(rs, ks) |-> Run(rs, ks, j)]

BothSorted == SortedBy(rows, keys) /\ SortedBy(args0, keys)

\* the pairs (left row, right row) with equal join-key values
MatchingPairs ==
    {p \in (1..Len(rows)) \X (1..Len(args0)) :
        KeyOf(rows[p[1]], keys) = KeyOf(args0[p[2]], keys)}

\* the combined row of a pair, as a mapping
CombinedOf(p) ==
    AsMap(combined_row(keys, rows[p[1]], args0[p[2]],
                       <<joiner.a_suffix, joiner.b_suffix>>))

\* the multiset of the combined rows of all matching pairs
CombinedBag ==
    [m \in {CombinedOf(p) : p \in MatchingPairs} |->
        Cardinality({p \in MatchingPairs : CombinedOf(p) = m})]

\* the rows of rs whose key value does not occur in the other stream
OnlyIn(rs, other) ==
    SelectSeq(rs, LAMBDA r :
        \A j \in 1..Len(other) : KeyOf(other[j], keys) /= KeyOf(r, keys))

\* the multiset a strategy is to emit
StrategyBag(s) ==
    CombinedBag
    (+) (IF s \in {"Outer", "Left"} THEN RowBag(OnlyIn(rows, args0))
         ELSE EmptyBag)
    (+) (IF s \in {"Outer", "Right"} THEN RowBag(OnlyIn(args0, rows))
         ELSE EmptyBag)

\* C3: with the Inner strategy on two inputs sorted by the join key, the rows
\* Join has yielded when its stream ends are exactly the multiset of the
\* combined rows of all pairs of a left and a right row with equal join-key
\* values; a key on one side only yields no row.  (Two non-empty inputs end
\* the stream normally.)
C3_InnerJoinPairs ==
    (op = "Join" /\ joiner.strategy = "Inner" /\ BothSorted /\ Terminated)
    => /\ RowBag(out) = CombinedBag
       /\ Len(out) = Cardinality(MatchingPairs)
       /\ (rows /= <<>> /\ args0 /= <<>>) => pc = "done"

\* an inner join of a key with two rows on a side and of a key on one side only
C3_Witness ==
    /\ op = "Join" /\ joiner.strategy = "Inner" /\ BothSorted /\ pc = "done"
    /\ keys /= <<>>
    /\ Len(out) = 2
    /\ OnlyIn(rows, args0) /= <<>> \/ OnlyIn(args0, rows) /= <<>>

\* C4: Outer, Left and Right emit the combined rows Inner emits and, for key
\* values on one side only, the rows of that side unchanged, once each:
\* Outer of either side, Left of the left side, Right of the right side.
C4_OuterLeftRight ==
    (op = "Join" /\ joiner.strategy \in {"Outer", "Left", "Right"}
        /\ BothSorted /\ Terminated)
    => RowBag(out) = StrategyBag(joiner.strategy)

\* no row of the left input has a column v_1
PlainRows == \A i \in 1..Len(rows) : ~Has(rows[i], "v_1")

\* C4 with no input empty from the start and no column v_1: not a claim, the
\* part of C4 that the code keeps
C4_NonEmptyPlainInputs ==
    (op = "Join" /\ joiner.strategy \in {"Outer", "Left", "Right"}
        /\ BothSorted /\ Terminated /\ PlainRows
        /\ (keys = <<>> \/ (rows /= <<>> /\ args0 /= <<>>)))
    => (pc = "done" /\ RowBag(out) = StrategyBag(joiner.strategy))

\* the same with a column v_1: not a claim, and it does not hold
C4_NonEmptyInputs ==
    (op = "Join" /\ joiner.strategy \in {"Outer", "Left", "Right"}
        /\ BothSorted /\ Terminated
        /\ (keys = <<>> \/ (rows /= <<>> /\ args0 /= <<>>)))
    => (pc = "done" /\ RowBag(out) = StrategyBag(joiner.strategy))

\* the suffix the rows given as left_rows get, and the one right_rows get
SuffixOfLeft == IF join_type = "right" THEN joiner.b_suffix ELSE joiner.a_suffix
SuffixOfRight == IF join_type = "right" THEN joiner.a_suffix ELSE joiner.b_suffix

\* C5: the combined row of a left row l and a right row r has, for each
\* non-join column k of both, no column k, k+suffix_L bound to l[k] and
\* k+suffix_R bound to r[k]; each join-key column once, unsuffixed, with the
\* shared value; and l and r are as they were before.
C5_CombinedRowColumns ==
    (op = "Combine" /\ pc = "done")
    => LET l == calls[1].rows_a[1]
           r == calls[1].rows_b[1]
           c == out[1]
       IN  /\ Len(out) = 1
           /\ \A k \in (Names(l) \cap Names(r)) \ Range(keys) :
                 /\ ~Has(c, k)
                 /\ Has(c, k \o SuffixOfLeft)
                 /\ Get(c, k \o SuffixOfLeft) = Get(l, k)
                 /\ Has(c, k \o SuffixOfRight)
                 /\ Get(c, k \o SuffixOfRight) = Get(r, k)
           /\ \A k \in Range(keys) :
                 /\ Cardinality({i \in 1..Len(c) : c[i].name = k}) = 1
                 /\ Get(c, k) = Get(l, k)
                 /\ Get(c, k) = Get(r, k)
           /\ rows = <<l>>
           /\ args0 = <<r>>

\* no column of l or r is named like a suffixed colliding column
NoSuffixClash(l, r) ==
    \A k \in (Names(l) \cap Names(r)) \ Range(keys) :
        \A n \in Names(l) \cup Names(r) :
            n /= k \o SuffixOfLeft /\ n /= k \o SuffixOfRight

\* C5 for rows without such a column: not a claim, the part of C5 that the
\* code keeps
C5_NoSuffixClash ==
    (op = "Combine" /\ pc = "done"
        /\ NoSuffixClash(calls[1].rows_a[1], calls[1].rows_b[1]))
    => C5_CombinedRowColumns

\* C6: in the output of a Join of A (rows) and B (args[0]), a row combined
\* from a row a of A and a row b of B binds v_1 to a's v and v_2 to b's v,
\* and so for the column id when it is no join key, under every strategy.
C6_SuffixOneIsLeftInput ==
    (op = "Join")
    => \A n \in 1..Len(out) :
          (~Has(out[n], "v"))
          => \E p \in MatchingPairs :
                LET a == rows[p[1]]
                    b == args0[p[2]]
                IN  /\ Has(out[n], "v_1") /\ Get(out[n], "v_1") = Get(a, "v")
                    /\ Has(out[n], "v_2") /\ Get(out[n], "v_2") = Get(b, "v")
                    /\ keys = <<>> =>
                          /\ Has(out[n], "id_1")
                          /\ Get(out[n], "id_1") = Get(a, "id")
                          /\ Has(out[n], "id_2")
                          /\ Get(out[n], "id_2") = Get(b, "id")

\* C6 for left rows without a column v_1: not a claim, the part of C6 that
\* the code keeps
C6_PlainRows == PlainRows => C6_SuffixOneIsLeftInput

\* a Right join of plain rows has yielded a combined row whose v_1 is the
\* first left row's v
C6_PlainRowsReached ==
    /\ op = "Join" /\ joiner.strategy = "Right" /\ pc = "done" /\ keys /= <<>>
    /\ PlainRows
    /\ \E n \in 1..Len(out) : Has(out[n], "v_1") /\ Get(out[n], "v_1") = 11

\* the runs of rs whose key is above every key of the other stream: in
\* sorted streams, the groups left when the other stream is exhausted
TailRuns(rs, other) ==
    {j \in 1..NumRuns(rs, keys) :
        \A i \in 1..Len(other) :
            KeyLess(KeyOf(other[i], keys), KeyOf(rs[RunStart(rs, keys, j)], keys))}

\* the last calls of the joiner are the tail runs of the left input, in
\* order, each against an empty right group
LeftTailHandedOver ==
    LET t == Cardinality(TailRuns(rows, args0))
        n == NumRuns(rows, keys)
    IN  /\ Len(calls) >= t
        /\ \A m \in 1..t :
              calls[Len(calls) - t + m] = Call(keys, Run(rows, keys, n - t + m), <<>>)

RightTailHandedOver ==
    LET t == Cardinality(TailRuns(args0, rows))
        n == NumRuns(args0, keys)
    IN  /\ Len(calls) >= t
        /\ \A m \in 1..t :
              calls[Len(calls) - t + m] = Call(keys, <<>>, Run(args0, keys, n - t + m))

\* C7: for a non-empty join-key tuple and sorted inputs, an input that is
\* exhausted - or empty from the start - raises no error: the stream ends
\* normally, and the groups the other input still has were handed to the
\* joiner against an empty group, in order.  So an Outer join with an empty
\* stream yields the other stream's rows, an Inner join nothing.
C7_ExhaustedInput ==
    (op = "Join" /\ keys /= <<>> /\ BothSorted /\ Terminated)
    => /\ pc = "done"
       /\ err = "none"
       /\ LeftTailHandedOver
       /\ RightTailHandedOver
       /\ (args0 = <<>> /\ joiner.strategy = "Outer") => out = rows
       /\ (rows = <<>> /\ joiner.strategy = "Outer") => out = args0
       /\ ((rows = <<>> \/ args0 = <<>>) /\ joiner.strategy = "Inner") => out = <<>>

\* C7 for two inputs that are not empty from the start: not a claim, the part
\* of C7 that the code keeps
C7_NonEmptyInputs ==
    (rows /= <<>> /\ args0 /= <<>>) => C7_ExhaustedInput

\* C8: for a non-empty join-key tuple and two non-empty inputs, the output
\* stream of Join ends with the ordering error (ValueError) exactly if one of
\* the two inputs has adjacent groups with a strictly decreasing key, under
\* every strategy, and raises no other error.
C8_JoinUnsortedIff ==
    (op = "Join" /\ keys /= <<>> /\ rows /= <<>> /\ args0 /= <<>>)
    => /\ err \in {"none", "ValueError"}
       /\ err = "ValueError" =>
             (DecreasingGroups(rows, keys) \/ DecreasingGroups(args0, keys))
       /\ (Terminated /\ (DecreasingGroups(rows, keys)
                            \/ DecreasingGroups(args0, keys)))
             => err = "ValueError"

\* the ordering error of a Join whose left input is sorted and whose right
\* input is not, raised after rows were yielded
C8_Witness ==
    /\ op = "Join" /\ pc = "failed" /\ err = "ValueError"
    /\ SortedBy(rows, keys) /\ ~SortedBy(args0, keys)
    /\ out /= <<>>

----------------------------------------------------------------------------
(* What the claims about Map speak of. *)

\* the rows the mapper yields for the first n input rows, concatenated
RECURSIVE MappedRows(_)
MappedRows(n) ==
    IF n = 0 THEN <<>>
    ELSE MappedRows(n - 1) \o ApplyMapper(mapper, rows[n]).rows

\* C11: Map gives the mapper each input row, in input order, and has yielded
\* exactly the rows the mapper yields for them, in the order yielded; at the
\* end every input row has been given, no error is raised, and with
\* DummyMapper the output is the input, row by row.
C11_MapConcatenates ==
    (op = "Map")
    => /\ pc /= "failed"
       /\ \A j \in 1..Len(calls) : calls[j] = Call(<<>>, <<rows[j]>>, <<>>)
       /\ out = MappedRows(Len(calls))
       /\ pc = "done" =>
             /\ Len(calls) = Len(rows)
             /\ mapper = "DummyMapper" => out = rows

\* a finished Map with Split where one input row gave two rows and another none
C11_Witness ==
    /\ op = "Map" /\ pc = "done" /\ mapper = "Split"
    /\ \E i, j \in 1..Len(rows) :
          /\ Len(Split(rows[i]).rows) = 2
          /\ Split(rows[j]).rows = <<>>
    /\ Len(out) >= 2

----------------------------------------------------------------------------
(* What the claim about the exchanged inner join speaks of. *)

\* both calls have ended
BothCallsEnded == op = "Join" /\ first_call /= NoFirst /\ Terminated

\* C20: for inputs A and B sorted by K, Join(InnerJoiner('_1', '_2'), K)(A, B)
\* and Join(InnerJoiner('_2', '_1'), K)(B, A) have yielded the same multiset
\* of rows when they end, and end the same way.
C20_InnerJoinSwapped ==
    (BothCallsEnded /\ BothSorted)
    => /\ RowBag(first_call.out) = RowBag(out)
       /\ first_call.pc = pc
       /\ first_call.err = err

\* no row of either input has a column v_1
PlainInputs ==
    /\ \A i \in 1..Len(rows) : ~Has(rows[i], "v_1")
    /\ \A i \in 1..Len(args0) : ~Has(args0[i], "v_1")

\* C20 for rows without a column v_1: not a claim, the part of C20 that the
\* code keeps
C20_PlainInputs == PlainInputs => C20_InnerJoinSwapped

\* both calls of plain inputs ended normally with two combined rows
C20_PlainInputsReached ==
    /\ BothCallsEnded /\ BothSorted /\ PlainInputs
    /\ keys /= <<>> /\ pc = "done" /\ Len(out) = 2 /\ Len(first_call.out) = 2

----------------------------------------------------------------------------
(* What the claim about Sort speaks of. *)

\* the permutations of 1..n
Rearrangements(n) ==
    {f \in [1..n -> 1..n] : \A i, j \in 1..n : i /= j => f[i] /= f[j]}

\* sorted is rs rearranged, ascending by the key tuple ks, rows with equal
\* keys in their order in rs
StablySorted(sorted, rs, ks) ==
    /\ Len(sorted) = Len(rs)
    /\ \E f \in Rearrangements(Len(rs)) :
          /\ \A i \in 1..Len(rs) : sorted[i] = rs[f[i]]
          /\ \A i, j \in 1..Len(rs) :
                i < j => \/ KeyLess(KeyOf(rs[f[i]], ks), KeyOf(rs[f[j]], ks))
                         \/ /\ KeyOf(rs[f[i]], ks) = KeyOf(rs[f[j]], ks)
                            /\ f[i] < f[j]

\* C19: the stream of the node built by Graph.sort(K) raises no error and,
\* when it ends, has emitted the input rows rearranged, ascending in the
\* lexicographic order of the key tuple K, rows with equal key tuples in
\* their input order - for inputs of at most CHUNK rows and for longer ones;
\* before that it has emitted no more rows than the input has.
C19_SortStable ==
    (op = "Sort")
    => /\ pc /= "failed"
       /\ Len(out) <= Len(rows)
       /\ pc = "done" => StablySorted(out, rows, calls[1].key_names)

\* a finished Sort of an input longer than CHUNK, not sorted by K, with two
\* different rows of equal key tuple
C19_Witness ==
    /\ op = "Sort" /\ pc = "done"
    /\ Len(rows) > CHUNK
    /\ ~SortedBy(rows, calls[1].key_names)
    /\ \E i, j \in 1..Len(rows) :
          /\ rows[i] /= rows[j]
          /\ KeyOf(rows[i], calls[1].key_names) = KeyOf(rows[j], calls[1].key_names)

\* a finished Sort of an input of at most CHUNK rows that was not sorted
C19_WitnessInMemory ==
    /\ op = "Sort" /\ pc = "done"
    /\ Len(rows) <= CHUNK
    /\ ~SortedBy(rows, calls[1].key_names)


----------------------------------------------------------------------------
(* Claims about building and running graphs.                               *)

\* the generators of the run s that have been started
StartedBy(s) == {id \in DOMAIN frames : id[1] = s}

\* C15: building a graph and calling run invoke no supplier, mapper,
\* reducer or joiner and open no file: while no run exists no generator has
\* been started, and a run from which no row has been requested yet has an
\* empty log of invocations, no started generator and no output.
C15_NothingBeforeFirstPull ==
    /\ streams = <<>> => frames = <<>>
    /\ \A s \in DOMAIN streams :
          streams[s].pulls = 0 =>
             /\ streams[s].log = <<>>
             /\ StartedBy(s) = {}
             /\ streams[s].out = <<>>
             /\ streams[s].st \in {"created", "closed"}

\* run has been called on a join of two built graphs and nothing has been
\* requested from it
C15_Witness ==
    /\ Len(streams) = 1
    /\ streams[1].pulls = 0
    /\ Len(nodes) = NumSources + MaxOps
    /\ nodes[streams[1].node].operation.type = "Join"

\* the file of a Read generator is open from its first next() until the
\* generator ends: the with block of Read.__call__ is left only then
OpenFiles(s) ==
    {id \in StartedBy(s) :
        /\ nodes[frames[id].node].operation.type = "Read"
        /\ frames[id].st = "suspended"}

C18_FilesClosedByClose ==
    \A s \in DOMAIN streams :
       streams[s].st = "closed" => OpenFiles(s) = {}

RECURSIVE PathsIn(_, _, _)
\* the number of parent paths that lead from node n of ns up to node m
PathsIn(ns, n, m) ==
    IF n = m THEN 1
    ELSE IF ns[n].parents = <<>> THEN 0
    ELSE IF Len(ns[n].parents) = 1 THEN PathsIn(ns, ns[n].parents[1], m)
    ELSE PathsIn(ns, ns[n].parents[1], m) + PathsIn(ns, ns[n].parents[2], m)

Paths(n, m) == PathsIn(nodes, n, m)

\* the ReadIterGenerator nodes the run s is built on
IterSources(s) ==
    {m \in DOMAIN nodes :
        /\ Paths(streams[s].node, m) > 0
        /\ nodes[m].operation.type = "ReadIterGenerator"}

\* a source of the run s is not among the sources given to run
MissingSource(s) ==
    \E m \in IterSources(s) :
        nodes[m].operation.name \notin DOMAIN streams[s].kwargs

\* how many times the event e is in the log of the run s
Invocations(s, e) ==
    Cardinality({i \in DOMAIN streams[s].log : streams[s].log[i] = e})

\* C16: a run of a graph with an iterator source whose name is not among
\* the sources given to run emits no row and ends with KeyError (the
\* MissingSource kind); in a run that ends normally every source has been
\* looked up and its supplier called.
C16_MissingSourceFails ==
    \A s \in DOMAIN streams :
       /\ MissingSource(s) =>
             /\ streams[s].out = <<>>
             /\ streams[s].st = "finished" => streams[s].err = "KeyError"
       /\ (streams[s].st = "finished" /\ streams[s].err = "none") =>
             \A m \in IterSources(s) :
                Invocations(s, Event("supplier", nodes[m].operation.name)) > 0

\* the supplier of 'x' yields at least one row and its rows are sorted
SortedNonEmptyX ==
    /\ heap /= <<>>
    /\ Get(heap[1], "k") <= Get(heap[2], "k")

\* the same for the runs whose supplier of 'x' yields sorted rows, at least
\* one
C16_NonEmptyInputs == SortedNonEmptyX => C16_MissingSourceFails

\* a run with a missing source and a supplier that yields rows has failed
\* after that supplier was called
C16_NonEmptyInputsReached ==
    /\ SortedNonEmptyX
    /\ \E s \in DOMAIN streams :
          /\ MissingSource(s)
          /\ streams[s].st = "finished"
          /\ Invocations(s, Event("supplier", "x")) > 0

\* the calls of algorithms.inverted_index_graph('texts'), in the order they
\* are made; self and other are the numbers of the nodes made before
InvertedIndexCalls ==
    << [b |-> "graph_from_iter", name |-> "texts"],
       [b |-> "copy", self |-> 1],
       [b |-> "map", self |-> 2, m |-> "FilterPunctuation"],
       [b |-> "map", self |-> 3, m |-> "LowerCase"],
       [b |-> "map", self |-> 4, m |-> "Split"],
       [b |-> "copy", self |-> 1],
       [b |-> "reduce", self |-> 6, r |-> "CountRows", ks |-> <<>>],
       [b |-> "copy", self |-> 5],
       [b |-> "sort", self |-> 8, ks |-> <<"doc_id", "text">>],
       [b |-> "reduce", self |-> 9, r |-> "FirstReducer",
        ks |-> <<"doc_id", "text">>],
       [b |-> "sort", self |-> 10, ks |-> <<"text">>],
       [b |-> "reduce", self |-> 11, r |-> "Count", ks |-> <<"text">>],
       [b |-> "join", self |-> 12, j |-> DefaultJoiner("Inner"), other |-> 7,
        ks |-> <<>>],
       [b |-> "map", self |-> 13, m |-> "LogTransform"],
       [b |-> "copy", self |-> 5],
       [b |-> "sort", self |-> 15, ks |-> <<"doc_id">>],
       [b |-> "reduce", self |-> 16, r |-> "TermFrequency",
        ks |-> <<"doc_id">>],
       [b |-> "sort", self |-> 17, ks |-> <<"text">>],
       [b |-> "copy", self |-> 14],
       [b |-> "copy", self |-> 18],
       [b |-> "join", self |-> 19, j |-> DefaultJoiner("Inner"), other |-> 20,
        ks |-> <<"text">>],
       [b |-> "map", self |-> 21, m |-> "Product"],
       [b |-> "map", self |-> 22, m |-> "Project"],
       [b |-> "sort", self |-> 23, ks |-> <<"text", "doc_id">>],
       [b |-> "reduce", self |-> 24, r |-> "TopN", ks |-> <<"text">>] >>

\* the node a builder call makes, ns the nodes made so far
CallBuilder(ns, c) ==
    CASE c.b = "graph_from_iter" -> graph_from_iter(c.name)
      [] c.b = "copy" -> copy_of(ns, c.self)
      [] c.b = "map" -> map(c.self, c.m)
      [] c.b = "reduce" -> reduce(c.self, c.r, c.ks)
      [] c.b = "sort" -> sort(c.self, c.ks)
      [] c.b = "join" -> join(c.self, c.j, c.other, c.ks)

RECURSIVE BuildAll(_, _)
BuildAll(calls_, ns) ==
    IF calls_ = <<>> THEN ns
    ELSE BuildAll(Tail(calls_), Append(ns, CallBuilder(ns, Head(calls_))))

\* the nodes of inverted_index_graph('texts'); the last one is returned
inverted_index_graph == BuildAll(InvertedIndexCalls, <<>>)

RECURSIVE SumPaths(_, _, _)
\* the parent paths from node n of ns to the nodes 1..m that read name
SumPaths(ns, n, m) ==
    IF m = 0 THEN 0
    ELSE SumPaths(ns, n, m - 1)
         + (IF ns[m].operation = graph_from_iter("texts").operation
            THEN PathsIn(ns, n, m) ELSE 0)

\* the generators of node m that the run s has started
GeneratorsOf(s, m) == {id \in StartedBy(s) : frames[id].node = m}

\* the run s has been consumed to its end and no error was raised
EndedNormally(s) == streams[s].st = "finished" /\ streams[s].err = "none"

\* C13: within one run a node is executed once for each consumer: a node
\* that k parent paths lead to from the terminal node has at most k
\* generators started, and exactly k when the run has been consumed to its
\* end; each started generator of an iterator source is one call of its
\* supplier, so a source reached by k paths has its supplier called k times;
\* the reader of inverted_index_graph is reached by 3 paths.
C13_ExecutedOncePerPath ==
    /\ SumPaths(inverted_index_graph, Len(inverted_index_graph),
                Len(inverted_index_graph)) = 3
    /\ \A s \in DOMAIN streams :
          /\ \A m \in DOMAIN nodes :
                /\ Cardinality(GeneratorsOf(s, m)) <= Paths(streams[s].node, m)
                /\ EndedNormally(s) =>
                     Cardinality(GeneratorsOf(s, m)) = Paths(streams[s].node, m)
          /\ \A name \in DOMAIN streams[s].kwargs :
                Invocations(s, Event("supplier", name))
                   = Cardinality({id \in StartedBy(s) :
                        nodes[frames[id].node].operation
                           = graph_from_iter(name).operation})

\* a run of a graph in which the source 'x' is reached by two paths has been
\* consumed to its end and has yielded rows
C13_Witness ==
    \E s \in DOMAIN streams :
       /\ EndedNormally(s)
       /\ streams[s].out /= <<>>
       /\ \E m \in IterSources(s) :
             /\ Paths(streams[s].node, m) = 2
             /\ Invocations(s, Event("supplier", "x")) = 2

IsPrefix(a, b) == Len(a) <= Len(b) /\ a = SubSeq(b, 1, Len(a))

\* the run s has so far done what it does alone
AsAlone(s, alone) ==
    /\ IsPrefix(streams[s].out, alone.out)
    /\ IsPrefix(streams[s].log, alone.log)
    /\ streams[s].st = "finished" =>
          /\ streams[s].out = alone.out
          /\ streams[s].err = alone.err
          /\ streams[s].log = alone.log

\* C12: two runs of the same graph, each with suppliers of its own, produce
\* each what that run produces alone (rows, error and invocations), however
\* the pulls from the two streams are interleaved and whichever run is
\* consumed first; and no step of a run changes a node or its operation.
C12_RunsIndependent ==
    /\ [](\A s \in DOMAIN streams : AsAlone(s, streams[s].alone))
    /\ [][streams /= <<>> => nodes' = nodes]_vars

\* the second run has been consumed to its end, with rows, while the first
\* run is suspended after a row
C12_Witness ==
    /\ Len(streams) = 2
    /\ streams[1].st = "suspended"
    /\ streams[1].out /= <<>>
    /\ streams[2].st = "finished"
    /\ streams[2].err = "none"
    /\ streams[2].out /= <<>>
    /\ streams[2].kwargs /= streams[1].kwargs

\* C14: copy returns a new node with the operation and the parents of G,
\* and G.run(src) and G.copy().run(src), src the same sources, yield equal
\* row sequences and end the same way.
C14_CopyRunsEqual ==
    Len(streams) = 2 =>
       /\ streams[2].node /= streams[1].node
       /\ nodes[streams[2].node] = nodes[streams[1].node]
       /\ streams[2].kwargs = streams[1].kwargs
       /\ (streams[1].st = "finished" /\ streams[2].st = "finished") =>
             /\ streams[2].out = streams[1].out
             /\ streams[2].err = streams[1].err

\* no mapper of G writes to the rows it is given
NoWritingMapper ==
    \A m \in DOMAIN nodes :
       Paths(Len(nodes), m) > 0 =>
          (nodes[m].operation.type = "Map"
              => nodes[m].operation.mapper /= "Divide")

\* the same for the graphs without a mapper that writes to its input row
C14_PureMappers == NoWritingMapper => C14_CopyRunsEqual

\* both runs of such a graph have been consumed to the end, with rows
C14_PureMappersReached ==
    /\ NoWritingMapper
    /\ Len(streams) = 2
    /\ streams[1].st = "finished"
    /\ streams[2].st = "finished"
    /\ streams[2].out /= <<>>

----------------------------------------------------------------------------
(* The program that counts words: word_count_graph('texts') run on a       *)
(* supplier of rows with a text column and consumed row by row.  The last  *)
(* operation is a sort, which reads its whole input at the first next():   *)
(* that step executes every operation of the graph to its end.             *)

WordCountCalls ==
    << [b |-> "graph_from_iter", name |-> "texts"],
       [b |-> "copy", self |-> 1],
       [b |-> "map", self |-> 2, m |-> "FilterPunctuation"],
       [b |-> "map", self |-> 3, m |-> "LowerCase"],
       [b |-> "map", self |-> 4, m |-> "Split"],
       [b |-> "sort", self |-> 5, ks |-> <<TextColumn>>],
       [b |-> "reduce", self |-> 6, r |-> "Count", ks |-> <<TextColumn>>],
       [b |-> "sort", self |-> 7, ks |-> <<Column, TextColumn>>] >>

\* sorted by the text column alone at the end
word_count_graph_sorted_by_text ==
    BuildAll(SubSeq(WordCountCalls, 1, 7)
                \o <<[b |-> "sort", self |-> 7, ks |-> <<TextColumn>>]>>, <<>>)

\* the nodes of word_count_graph('texts'), count_column being Column; the
\* last one is returned
word_count_graph == BuildAll(WordCountCalls, <<>>)

\* ord(ch) for the characters of the texts
ord(ch) ==
    CASE ch = " " -> 32
      [] ch = "!" -> 33
      [] ch = "," -> 44
      [] ch = "A" -> 65
      [] ch = "B" -> 66
      [] ch = "a" -> 97
      [] ch = "b" -> 98

\* Python's a < b on two strings
TextLess(a, b) ==
    \E i \in 1..Len(b) :
        /\ \A j \in 1..(i - 1) : j <= Len(a) /\ a[j] = b[j]
        /\ i > Len(a) \/ ord(a[i]) < ord(b[i])

\* Python's x < y on two values of a column: texts in the text column,
\* numbers in the others
ValueLess(column, x, y) ==
    IF column = TextColumn THEN TextLess(x, y) ELSE x < y

\* itemgetter(*ks)(a) < itemgetter(*ks)(b)
RowLess(a, b, ks) ==
    \E i \in 1..Len(ks) :
        /\ \A j \in 1..(i - 1) : Get(a, ks[j]) = Get(b, ks[j])
        /\ ValueLess(ks[i], Get(a, ks[i]), Get(b, ks[i]))

\* row put into the sorted rows behind the rows that are not above it
RECURSIVE Inserted(_, _, _)
Inserted(sorted, row, ks) ==
    IF sorted = <<>> THEN <<row>>
    ELSE IF RowLess(row, sorted[Len(sorted)], ks)
    THEN Append(Inserted(SubSeq(sorted, 1, Len(sorted) - 1), row, ks),
                sorted[Len(sorted)])
    ELSE Append(sorted, row)

\* what ExternalSort(ks) yields for the rows rs: rs ascending by the key
\* tuple, rows with equal keys in their order in rs
RECURSIVE Sorted(_, _)
Sorted(rs, ks) ==
    IF rs = <<>> THEN <<>>
    ELSE Inserted(Sorted(SubSeq(rs, 1, Len(rs) - 1), ks), rs[Len(rs)], ks)

\* what Map(m) yields for the rows rs
RECURSIVE Mapped(_, _)
Mapped(m, rs) ==
    IF rs = <<>> THEN <<>>
    ELSE Mapped(m, SubSeq(rs, 1, Len(rs) - 1)) \o ApplyMapper(m, rs[Len(rs)]).rows

\* what the reducer r yields for the first n groups of rs
RECURSIVE ReducedGroups(_, _, _, _)
ReducedGroups(r, rs, ks, n) ==
    IF n = 0 THEN <<>>
    ELSE ReducedGroups(r, rs, ks, n - 1) \o ApplyReducer(r, ks, Run(rs, ks, n)).rows

\* the groups of rs before the first one whose key is below the key of the
\* group before it: all of them when there is none
OrderedGroups(rs, ks) ==
    IF \E j \in 2..NumRuns(rs, ks) :
          RowLess(rs[RunStart(rs, ks, j)], rs[RunStart(rs, ks, j - 1)], ks)
    THEN (CHOOSE j \in 2..NumRuns(rs, ks) :
            /\ RowLess(rs[RunStart(rs, ks, j)], rs[RunStart(rs, ks, j - 1)], ks)
            /\ \A h \in 2..(j - 1) :
                  ~RowLess(rs[RunStart(rs, ks, h)], rs[RunStart(rs, ks, h - 1)], ks)) - 1
    ELSE NumRuns(rs, ks)

\* what Reduce(r, ks) yields for the rows rs, and how its stream ends: with
\* RuntimeError without a row (non-empty keys), ValueError at a group out
\* of order
Reduced(r, rs, ks) ==
    IF rs = <<>> /\ ks /= <<>> THEN [rows |-> <<>>, err |-> "RuntimeError"]
    ELSE [rows |-> ReducedGroups(r, rs, ks, OrderedGroups(rs, ks)),
          err |-> IF OrderedGroups(rs, ks) < NumRuns(rs, ks) THEN "ValueError"
                  ELSE "none"]

\* list(ns[n].run(texts=lambda: iter(data))): the rows the run yields and
\* the exception that ends it, if any.  An exception of a parent ends the
\* stream after the rows made of the parent's rows; a sort has yielded
\* nothing by then, a reduce nothing for the group it was reading.
RECURSIVE listed(_, _, _)
listed(ns, n, data) ==
    IF ns[n].operation.type = "ReadIterGenerator"
    THEN [rows |-> data, err |-> "none"]
    ELSE With(listed(ns, ns[n].parents[1], data), LAMBDA parent :
         CASE ns[n].operation.type = "Map" ->
                  [rows |-> Mapped(ns[n].operation.mapper, parent.rows),
                   err |-> parent.err]
           [] ns[n].operation.type = "ExternalSort" ->
                  IF parent.err /= "none" THEN [rows |-> <<>>, err |-> parent.err]
                  ELSE [rows |-> Sorted(parent.rows, ns[n].operation.keys),
                        err |-> "none"]
           [] ns[n].operation.type = "Reduce" ->
                  IF parent.err = "none"
                  THEN Reduced(ns[n].operation.reducer, parent.rows,
                               ns[n].operation.keys)
                  ELSE [rows |-> ReducedGroups(ns[n].operation.reducer,
                                    parent.rows, ns[n].operation.keys,
                                    NumRuns(parent.rows, ns[n].operation.keys) - 1),
                        err |-> parent.err])

\* the texts of the rows: none, a word, an upper-case word with punctuation,
\* two words, words with punctuation inside and around and upper case, and
\* punctuation alone
WordTexts ==
    {<<>>, <<"a">>, <<"A", ",">>, <<"b", " ", "a">>,
     <<" ", "B", "!", " ", "a", ",", "b">>, <<",">>}

WordCountRows == {MapInputRow(1, text) : text \in WordTexts}

InitWordCount ==
    /\ op = "WordCount"
    /\ nodes = word_count_graph
    /\ rows \in SeqsUpTo(WordCountRows, MaxRows)
    /\ args0 = rows
    /\ streams = <<>>
    /\ frames = <<>>
    /\ heap = <<>>
    /\ keys = <<>>
    /\ reducer = "none"
    /\ mapper = "none"
    /\ joiner = NoJoiner
    /\ join_type = "any"
    /\ rows_left = NewGroupby
    /\ rows_right = NewGroupby
    /\ cur_left = None
    /\ cur_right = None
    /\ calls = <<>>
    /\ out = <<>>
    /\ err = "none"
    /\ pc = "start"
    /\ first_call = NoFirst
    /\ sorter = NoSorter

\* the first next() on list(graph.run(texts=lambda: iter(rows))): the graph
\* is executed to the end of the last sort's input, the supplier's rows being
\* the ones FilterPunctuation and LowerCase write to; the first row is
\* yielded, or the stream ends
WordCountFirst ==
    /\ op = "WordCount"
    /\ pc = "start"
    /\ \E res \in {listed(nodes, Len(nodes), rows)} :
          /\ sorter' = [pos |-> IF res.rows = <<>> THEN 0 ELSE 1,
                        runs |-> <<res.rows>>]
          /\ out' = IF res.rows = <<>> THEN <<>> ELSE <<res.rows[1]>>
          /\ err' = res.err
          /\ pc' = IF res.err /= "none" THEN "failed"
                   ELSE IF res.rows = <<>> THEN "done" ELSE "loop"
    /\ rows' = Mapped("LowerCase", Mapped("FilterPunctuation", rows))
    /\ UNCHANGED <<op, args0, keys, reducer, joiner, join_type, rows_left,
                   rows_right, cur_left, cur_right, calls, mapper, first_call,
                   graph_vars>>

\* a further next(): the next row of the sorted rows
WordCountNext ==
    /\ op = "WordCount"
    /\ pc = "loop"
    /\ sorter.pos < Len(sorter.runs[1])
    /\ out' = Append(out, sorter.runs[1][sorter.pos + 1])
    /\ sorter' = [sorter EXCEPT !.pos = @ + 1]
    /\ UNCHANGED <<op, rows, args0, keys, reducer, joiner, join_type,
                   rows_left, rows_right, cur_left, cur_right, calls, err, pc,
                   mapper, first_call, graph_vars>>

\* no row is left: the stream ends
WordCountStop ==
    /\ op = "WordCount"
    /\ pc = "loop"
    /\ sorter.pos = Len(sorter.runs[1])
    /\ pc' = "done"
    /\ UNCHANGED <<op, rows, args0, keys, reducer, joiner, join_type,
                   rows_left, rows_right, cur_left, cur_right, calls, out, err,
                   mapper, first_call, sorter, graph_vars>>

NextWordCount == WordCountFirst \/ WordCountNext \/ WordCountStop

SpecWordCount == InitWordCount /\ [][NextWordCount]_vars

\* a text without its punctuation, in lower case
Cleaned(text) ==
    [i \in 1..Len(SelectSeq(text, LAMBDA ch : ch \notin Punctuation)) |->
        lower(SelectSeq(text, LAMBDA ch : ch \notin Punctuation)[i])]

\* the tokens of a text: its punctuation removed, lower-cased, split at
\* white space, the empty parts left out
TokensOf(text) ==
    SelectSeq(finditer(Cleaned(text), 1), LAMBDA token : token /= <<>>)

\* the tokens of the i-th row given to the run
RowTokens(i) == TokensOf(Get(args0[i], TextColumn))

\* the distinct tokens of the rows given to the run
Tokens == UNION {Range(RowTokens(i)) : i \in 1..Len(args0)}

\* how often the token occurs in the rows given to the run
Occurrences(token) ==
    Cardinality(UNION {{<<i, h>> : h \in {h \in 1..Len(RowTokens(i)) :
                                              RowTokens(i)[h] = token}} :
                       i \in 1..Len(args0)})

\* C21: the rows word_count_graph has yielded when its stream ends are one
\* row {text, count} for each distinct token of the text column of all
\* input rows (punctuation removed, lower-cased, split at white space, no
\* empty token), count being the number of occurrences of the token, in
\* ascending order of (count, text); the stream of an input with a token
\* ends normally.
C21_WordCount ==
    (op = "WordCount" /\ Terminated)
    => /\ Len(out) = Cardinality(Tokens)
       /\ \A token \in Tokens :
             \E n \in 1..Len(out) :
                AsMap(out[n]) = {<<TextColumn, token>>,
                                 <<Column, Occurrences(token)>>}
       /\ \A n \in 1..Len(out) : Get(out[n], TextColumn) /= <<>>
       /\ \A n \in 1..(Len(out) - 1) :
             RowLess(out[n], out[n + 1], <<Column, TextColumn>>)
       /\ Tokens /= {} => pc = "done"

\* the counts of three rows whose tokens are a, three times, and b, twice,
\* have been yielded: b before a
C21_Witness ==
    /\ op = "WordCount" /\ pc = "done"
    /\ Len(args0) = 3
    /\ AsMaps(out) = << {<<TextColumn, <<"b">> >>, <<Column, 2>>},
                        {<<TextColumn, <<"a">> >>, <<Column, 3>>} >>

\* the join-key values that occur in either input
KeyValues ==
    {KeyOf(rows[i], keys) : i \in 1..Len(rows)}
        \cup {KeyOf(args0[i], keys) : i \in 1..Len(args0)}

\* the n-th smallest of them
KeyValue(n) ==
    CHOOSE k \in KeyValues :
        Cardinality({h \in KeyValues : KeyLess(h, k)}) = n - 1

\* the rows of rs with the join-key value k, in input order
RowsWithKey(rs, k) == SelectSeq(rs, LAMBDA r : KeyOf(r, keys) = k)

\* one call for every key value, in ascending order: the rows of the left
\* input with that value and the rows of the right input with it
CallPerKeyValue ==
    [n \in 1..Cardinality(KeyValues) |->
        Call(keys, RowsWithKey(rows, KeyValue(n)),
             RowsWithKey(args0, KeyValue(n)))]

\* how many groups of the left input, and of the right, went to the joiner
LeftHandedOver == Cardinality({n \in 1..Len(calls) : calls[n].rows_a /= <<>>})
RightHandedOver == Cardinality({n \in 1..Len(calls) : calls[n].rows_b /= <<>>})

\* the group of rs the loop holds when h of its groups have been handed over
HeldGroup(rs, h) ==
    IF h < NumRuns(rs, keys)
    THEN Some(KeyOf(rs[RunStart(rs, keys, h + 1)], keys), Run(rs, keys, h + 1))
    ELSE None

\* C22: for two non-empty inputs sorted by a non-empty join key, the calls
\* of the joiner are, in ascending order of the key values of both inputs,
\* (groupL, groupR) for a value on both sides, (groupL, []) for a value on
\* the left only and ([], groupR) for a value on the right only, so every
\* group is handed over once; and each input is always exactly one group
\* ahead of its groups handed over: both advance after an equal-key step,
\* only the side with the smaller key after an unequal one.
C22_MergeLoopCalls ==
    (op = "Join" /\ keys /= <<>> /\ rows /= <<>> /\ args0 /= <<>> /\ BothSorted)
    => /\ pc /= "failed"
       /\ Len(calls) <= Cardinality(KeyValues)
       /\ calls = SubSeq(CallPerKeyValue, 1, Len(calls))
       /\ pc = "done" => calls = CallPerKeyValue
       /\ pc \in {"loop", "done"} =>
             /\ cur_left = HeldGroup(rows, LeftHandedOver)
             /\ cur_right = HeldGroup(args0, RightHandedOver)

\* a join that has handed over a group of two rows against a group of the
\* other side, a group of the left side alone and ended
C22_Witness ==
    /\ op = "Join" /\ keys /= <<>> /\ BothSorted /\ pc = "done"
    /\ \E n \in 1..Len(calls) :
          calls[n].rows_a /= <<>> /\ Len(calls[n].rows_b) = 2
    /\ \E n \in 1..Len(calls) :
          calls[n].rows_a /= <<>> /\ calls[n].rows_b = <<>>

----------------------------------------------------------------------------
(* Claims about the order of events in Reduce, Map and Join.               *)

\* the number of the first group whose successor has a smaller key, 0 when
\* there is none
FirstDecrease(rs, ks) ==
    LET n == Cardinality(RunStarts(rs, ks))
        dec == {j \in 1..(n - 1) :
                  KeyLess(KeyOf(rs[RunStart(rs, ks, j + 1)], ks),
                          KeyOf(rs[RunStart(rs, ks, j)], ks))}
    IN  IF dec = {} THEN 0 ELSE CHOOSE j \in dec : \A h \in dec : j <= h

\* C23: when group i+1 of Reduce's input has a smaller key than group i,
\* the ordering error is raised when group i+1 is requested: the reducer has
\* been called for the groups 1..i and their output has been emitted in
\* order, no later group is ever handed to the reducer and nothing is
\* emitted for it, and the stream yields nothing once the error is raised.
C23_ErrorAtNextGroup ==
    (op = "Reduce" /\ rows /= <<>> /\ keys /= <<>>
        /\ FirstDecrease(rows, keys) > 0)
    => /\ Len(calls) <= FirstDecrease(rows, keys)
       /\ \A j \in 1..Len(calls) :
             calls[j] = Call(keys, Run(rows, keys, j), <<>>)
       /\ out = ReducedRuns(Len(calls))
       /\ pc /= "done"
       /\ pc = "failed" =>
             /\ err = "ValueError"
             /\ Len(calls) = FirstDecrease(rows, keys)

\* the error raised at the request of the third group, after the output of
\* two groups
C23_Witness ==
    /\ op = "Reduce" /\ pc = "failed" /\ err = "ValueError"
    /\ FirstDecrease(rows, keys) = 2
    /\ out = ReducedRuns(2)
    /\ out /= <<>>

----------------------------------------------------------------------------
(* The program that runs a chain of maps: graph_from_iter('x') followed by  *)
(* one or two map calls, run on a supplier of rows with a text column, the *)
(* rows of the stream pulled one at a time.                                *)

\* the mappers of the chain: one row for a row, any number of rows, at most
\* one row
ChainMappers == {"DummyMapper", "Split", "Filter"}

\* graph_from_iter('x').map(ms[1]).map(ms[2])...
ChainOf(ms) ==
    [i \in 1..(Len(ms) + 1) |->
        IF i = 1 THEN graph_from_iter("x") ELSE map(i - 1, ms[i - 1])]

InitChain ==
    /\ op = "Graph"
    /\ \E ms \in SeqsUpTo(ChainMappers, MaxOps) : ms /= <<>> /\ nodes = ChainOf(ms)
    /\ streams = <<>>
    /\ frames = <<>>
    /\ \E data \in SeqsUpTo(MapInputRows, MaxOps) : heap = data \o data
    /\ rows = <<>>
    /\ args0 = <<>>
    /\ keys = <<>>
    /\ reducer = "none"
    /\ mapper = "none"
    /\ joiner = NoJoiner
    /\ join_type = "any"
    /\ rows_left = NewGroupby
    /\ rows_right = NewGroupby
    /\ cur_left = None
    /\ cur_right = None
    /\ calls = <<>>
    /\ out = <<>>
    /\ err = "none"
    /\ pc = "start"
    /\ first_call = NoFirst
    /\ sorter = NoSorter

NextChain == CallRun \/ Pull

SpecChain == InitChain /\ [][NextChain]_vars

\* the place of the generator of node j of a chain, the last node being the
\* terminal one
PlaceOf(j) == [i \in 1..(Len(nodes) - j) |-> 1]

\* the generator of node j of the chain run as stream 1
FrameOf(j) == frames[FrameId(1, PlaceOf(j))]

\* how many rows have been pulled from the supplier's iterator
Pulled ==
    IF FrameId(1, PlaceOf(1)) \in DOMAIN frames THEN FrameOf(1).loc.pos - 1
    ELSE 0

\* what the map of node j yields for the element e
YieldsFor(j, e) ==
    MapperYields(nodes[j].operation.mapper, e,
                 ApplyMapper(nodes[j].operation.mapper, Deref(heap, e)))

\* the element node j delivered last: the row pulled last from the supplier,
\* or of the rows the map yields for the element its parent delivered last
\* the last one that is not pending
RECURSIVE LastDelivered(_)
LastDelivered(j) ==
    IF j = 1 THEN Ref(streams[1].kwargs.x[Pulled])
    ELSE With(YieldsFor(j, LastDelivered(j - 1)), LAMBDA ys :
         ys[Len(ys) - Len(FrameOf(j).loc.pending)])

\* the map of node j holds rows of no input row but the one its parent
\* delivered last: the rows yielded for it that are not yet delivered, the
\* first of them being delivered
HoldsLastInputOnly(j) ==
    With(YieldsFor(j, LastDelivered(j - 1)), LAMBDA ys :
    With(FrameOf(j).loc.pending, LAMBDA pending :
        /\ Len(pending) < Len(ys)
        /\ pending = SubSeq(ys, Len(ys) - Len(pending) + 1, Len(ys))))

\* every map of the chain yields one row for a row
OneToOne == \A j \in 2..Len(nodes) : nodes[j].operation.mapper = "DummyMapper"

\* C24: when a row has been delivered to the consumer of a chain of maps,
\* every map of the chain holds rows of one input row only, the row it
\* pulled last, of whose rows at least the first has been delivered: no map
\* has pulled a row before the rows of the row before it were delivered; and
\* in a chain of one-to-one mappers exactly n rows have been pulled from the
\* supplier when n rows have been delivered.
C24_MapPullsOnDemand ==
    (op = "Graph" /\ streams /= <<>>)
    => /\ streams[1].st = "suspended" =>
             /\ \A j \in 2..Len(nodes) : HoldsLastInputOnly(j)
             /\ streams[1].out[Len(streams[1].out)]
                   = Deref(heap, LastDelivered(Len(nodes)))
       /\ streams[1].st = "created" => Pulled = 0
       /\ OneToOne => Pulled = Len(streams[1].out)

\* a chain of two maps has delivered the first of the two words of the
\* first row of two, the second row not being pulled
C24_Witness ==
    /\ op = "Graph" /\ streams /= <<>> /\ streams[1].st = "suspended"
    /\ Len(nodes) = 3
    /\ Len(streams[1].kwargs.x) = 2
    /\ nodes[2].operation.mapper = "Split"
    /\ Len(FrameOf(2).loc.pending) = 1
    /\ Pulled = 1

\* a chain of two one-to-one mappers has pulled and delivered two rows
C24_OneToOneReached ==
    /\ op = "Graph" /\ streams /= <<>> /\ streams[1].st = "suspended"
    /\ Len(nodes) = 3
    /\ OneToOne
    /\ Pulled = 2
    /\ Len(streams[1].out) = 2

\* the combined row of the left row l and the right row r under the
\* strategy of the joiner
CombinedPair(l, r) == ApplyJoiner(joiner, keys, <<l>>, <<r>>)[1]

\* for each left row in input order, its combinations with all right rows
\* in right-input order
LeftMajor(ls, rs) ==
    [n \in 1..(Len(ls) * Len(rs)) |->
        CombinedPair(ls[((n - 1) \div Len(rs)) + 1], rs[((n - 1) % Len(rs)) + 1])]

\* for each right row in input order, its combinations with all left rows
\* in left-input order
RightMajor(ls, rs) ==
    [n \in 1..(Len(ls) * Len(rs)) |->
        CombinedPair(ls[((n - 1) % Len(ls)) + 1], rs[((n - 1) \div Len(ls)) + 1])]

\* the rows the step emits
Emitted == SubSeq(out', Len(out) + 1, Len(out'))

\* the step joins the groups of a key value that has rows on both sides
MatchingStep ==
    /\ op = "Join" /\ pc = "loop" /\ BothPresent
    /\ cur_left.key = cur_right.key
    /\ cur_left.group /= <<>> /\ cur_right.group /= <<>>
    /\ calls' /= calls

\* C25: within a matching key group the combined rows are emitted in
\* left-major order under every strategy: for each left row in input order,
\* its combinations with all right rows in right-input order.
C25_LeftMajorOrder ==
    [][MatchingStep => Emitted = LeftMajor(cur_left.group, cur_right.group)]_vars

\* under the inner, the outer and the left strategy the order is left-major
C25_LeftMajorUnlessRight ==
    [][(MatchingStep /\ joiner.strategy /= "Right")
          => Emitted = LeftMajor(cur_left.group, cur_right.group)]_vars

\* under the right strategy it is right-major: the left group is the one
\* collected and iterated once per right row
C25_RightMajorWhenRight ==
    [][(MatchingStep /\ joiner.strategy = "Right")
          => Emitted = RightMajor(cur_left.group, cur_right.group)]_vars

\* a right join has emitted the four rows of two left and two right rows
C25_RightJoinedTwoByTwo ==
    /\ op = "Join" /\ joiner.strategy = "Right" /\ keys /= <<>>
    /\ \E n \in 1..Len(calls) :
          Len(calls[n].rows_a) = 2 /\ Len(calls[n].rows_b) = 2
    /\ Len(out) >= 4

\* a node of the graph the run s executes is a parent of two branches: two
\* parent paths lead to it from the terminal node
SharedParent(s) == \E m \in DOMAIN nodes : Paths(streams[s].node, m) >= 2

\* C26: in a run of a graph with a node that is a parent of two branches,
\* the row objects of the supplier, which both branches are handed, are at
\* every moment as they were when the run was made: no mapper executed in a
\* branch changes the rows the supplier holds and the other branch reads.
C26_BranchesDoNotInterfere ==
    \A s \in DOMAIN streams : SharedParent(s) => heap = streams[s].given

\* C26 for the graphs without a mapper that writes to its input row: not a
\* claim, the part of C26 that the code keeps
C26_PureMappers == NoWritingMapper => C26_BranchesDoNotInterfere

\* a run of such a graph, with a mapper in one of two branches of the source
\* 'x', has been consumed to its end and has yielded rows
C26_PureMappersReached ==
    /\ NoWritingMapper
    /\ \E s \in DOMAIN streams :
          /\ EndedNormally(s)
          /\ streams[s].out /= <<>>
          /\ Paths(streams[s].node, 1) = 2
          /\ \E m \in DOMAIN nodes :
                nodes[m].operation.type = "Map" /\ Paths(streams[s].node, m) = 1

\* the n-th combined row of a cross product pairs this left row ...
CrossLeft(n) == rows[((n - 1) \div Len(args0)) + 1]

\* ... with this right row
CrossRight(n) == args0[((n - 1) % Len(args0)) + 1]

\* every column name of both l and r is absent from c, which has it with
\* the first suffix bound to l's value and with the second bound to r's
CommonRenamed(c, l, r) ==
    \A k \in Names(l) \cap Names(r) :
        /\ ~Has(c, k)
        /\ Has(c, k \o joiner.a_suffix)
        /\ Get(c, k \o joiner.a_suffix) = Get(l, k)
        /\ Has(c, k \o joiner.b_suffix)
        /\ Get(c, k \o joiner.b_suffix) = Get(r, k)

\* C27: with the empty key tuple Join calls the joiner exactly once, with
\* the two entire inputs as the left and the right group, whatever the order
\* of their rows and without an ordering error; with the Inner strategy the
\* output is the cross product, |L|*|R| combined rows, in which every column
\* name common to both rows is renamed with the suffixes.
C27_JoinEmptyKeys ==
    (op = "Join" /\ keys = <<>>)
    => /\ Len(calls) <= 1
       /\ err = "none"
       /\ pc /= "failed"
       /\ pc = "done" =>
             /\ calls = <<Call(<<>>, rows, args0)>>
             /\ joiner.strategy = "Inner" =>
                   /\ Len(out) = Len(rows) * Len(args0)
                   /\ \A n \in 1..Len(out) :
                         CommonRenamed(out[n], CrossLeft(n), CrossRight(n))

\* C27 for left rows without a column v_1: not a claim, the part of C27 that
\* the code keeps
C27_PlainRows == PlainRows => C27_JoinEmptyKeys

\* the cross product of two unsorted inputs of plain rows has been emitted
C27_PlainRowsReached ==
    /\ op = "Join" /\ keys = <<>> /\ joiner.strategy = "Inner" /\ pc = "done"
    /\ PlainRows
    /\ ~SortedBy(rows, <<"id">>) /\ ~SortedBy(args0, <<"id">>)
    /\ Len(out) = MaxSide * MaxSide

\* Join whose generator is resumed as long as it has not ended: a consumer
\* that keeps calling next()
JoinResumed ==
    /\ WF_vars(JoinStart)
    /\ WF_vars(JoinEqual)
    /\ WF_vars(JoinRightSmaller)
    /\ WF_vars(JoinLeftSmaller)
    /\ WF_vars(JoinLeftOnly)
    /\ WF_vars(JoinRightOnly)
    /\ WF_vars(JoinBreak)

SpecJoinLive == InitJoin /\ [][NextJoin]_vars /\ JoinResumed

\* how far the generator of groups g over rs has come: 0 before its first
\* next(), then the position behind the last group fetched, and above every
\* position once it is exhausted
Fetched(g, rs) ==
    CASE g.st = "start" -> 0
      [] g.st = "end" -> Len(rs) + 2
      [] OTHER -> g.pos

\* C28: the merge loop of Join terminates on finite inputs: every iteration
\* but the last fetches the next group of at least one of the two inputs,
\* the iteration that finds both inputs exhausted leaves the loop, the loop
\* is left in no other way unless an error ends the stream, and the stream
\* does end.
C28_JoinTerminates ==
    /\ <>Terminated
    /\ [][pc = "loop" =>
            /\ (cur_left.none /\ cur_right.none) <=> pc' = "done"
            /\ pc' /= "done" =>
                  \/ Fetched(rows_left', rows) > Fetched(rows_left, rows)
                  \/ Fetched(rows_right', args0) > Fetched(rows_right, args0)
            /\ Fetched(rows_left', rows) >= Fetched(rows_left, rows)
            /\ Fetched(rows_right', args0) >= Fetched(rows_right, args0)]_vars

\* the loop has ended after two iterations that called the joiner
C28_Witness ==
    /\ op = "Join" /\ pc = "done" /\ keys /= <<>>
    /\ Len(calls) = 2
    /\ rows_left.st = "end" /\ rows_right.st = "end"

\* a _safe_groupby over rs by ks, of a Reduce or a Join, raises its ordering
\* error: some row's key is below the key of the row before it
OrderingError(rs, ks) ==
    \E i \in 1..(Len(rs) - 1) : Unsorted(KeyOf(rs[i], ks), KeyOf(rs[i + 1], ks))

Colliding(l, r) == (Names(l) \cap Names(r)) \ Range(keys)

\* every column of row that other lacks is in c under its own name with its
\* value in row
OwnColumnsKept(c, row, other) ==
    \A k \in Names(row) \ Names(other) : Has(c, k) /\ Get(c, k) = Get(row, k)

\* C30: combining a left row l and a right row r loses no data, whatever
\* the column names: every column of only one of the two rows is in the
\* combined row under its own name with its value, and the combined row has
\* |cols(l) union cols(r)| + c columns, c the number of colliding non-join
\* column names.
C30_CombineLosesNoData ==
    (op = "Combine" /\ pc = "done")
    => /\ Len(out) = 1
       /\ OwnColumnsKept(out[1], calls[1].rows_a[1], calls[1].rows_b[1])
       /\ OwnColumnsKept(out[1], calls[1].rows_b[1], calls[1].rows_a[1])
       /\ Cardinality(Names(out[1]))
            = Cardinality(Names(calls[1].rows_a[1]) \cup Names(calls[1].rows_b[1]))
              + Cardinality(Colliding(calls[1].rows_a[1], calls[1].rows_b[1]))

\* C30 for rows without a column named like a suffixed colliding column: not
\* a claim, the part of C30 that the code keeps
C30_NoSuffixClash ==
    (op = "Combine" /\ pc = "done"
        /\ NoSuffixClash(calls[1].rows_a[1], calls[1].rows_b[1]))
    => C30_CombineLosesNoData

\* two rows with a colliding column v and no column v_1 or v_2 were combined
C30_NoSuffixClashReached ==
    /\ op = "Combine" /\ pc = "done" /\ keys /= <<>>
    /\ NoSuffixClash(calls[1].rows_a[1], calls[1].rows_b[1])
    /\ Colliding(calls[1].rows_a[1], calls[1].rows_b[1]) = {"v"}
====
